---- MODULE Spec2Model ----
(***************************************************************************)
(* GhostHunter: model of the fetch / filter / aggregate pipeline and of    *)
(* the snapshot pass.                                                      *)
(*                                                                         *)
(* Strings are sequences of one-character strings, so that splitting,      *)
(* joining and regular-expression matching are computed, not assumed.      *)
(*                                                                         *)
(* Specifications:                                                         *)
(*   SpecSave, FairSpecSave   saveResultsByExtension (processor.go)       *)
(*   SpecSnap                 fetchSnapshots (scanner.go:714)              *)
(*   SpecSnapQueue,           fetchSnapshots over lists longer than its    *)
(*   FairSpecSnapQueue        channel                                      *)
(*   SpecFilter               filterURLs (processor.go:16)                 *)
(*   SpecFetch                fetchURLsConcurrently (network.go)           *)
(*   SpecRun                  runGhostHunter (main.go) with the fetcher    *)
(*                            goroutine and the aggregation it calls       *)
(*   SpecSaveOld              saveResultsByExtension as scanner.go:180     *)
(*                            and unnamed/part_001 have it                 *)
(*   SpecSnapCtx,             fetchSnapshots with a context that can be    *)
(*   FairSpecSnapCtx          cancelled during the pass                    *)
(*   SpecPasses               either pass, as main (main.go:29-34) runs    *)
(*   SpecLoad                 loadConfig (config.go:25)                    *)
(*   SpecSess                 first passes and snapshot searches over one  *)
(*                            results directory (scanner.go:857)           *)
(*   SpecChan                 fetchURLsConcurrently, the channel variant   *)
(*                            (scanner.go:116)                             *)
(*   SpecJson                 fetchSnapshots, the sequential JSON variant  *)
(*                            (scanner.go:362)                             *)
(***************************************************************************)
EXTENDS Integers, Sequences, FiniteSets, TLC

VARIABLES
    \* ---- saveResultsByExtension (processor.go) ----
    urls,           \* the urls argument: the filtered URL list
    savepc,         \* position of the calling goroutine
    extensionMap,   \* map[string][]string built by the grouping loop
    table,          \* rows appended to the tablewriter
    totalURLs,      \* the shared counter
    mu,             \* sync.Mutex: NoHolder or the goroutine holding it
    wg,             \* sync.WaitGroup counter
    gpc,            \* position of each save goroutine (keyed by extension)
    gtmp,           \* value of totalURLs a goroutine read for its +=
    gerr,           \* result of a goroutine's os.WriteFile
    files,          \* output directory: file name -> content
    writeAttempts,  \* number of os.WriteFile calls per extension
    \* ---- fetchSnapshots (scanner.go:714) ----
    snapUrls,       \* the urls argument
    snappc,         \* position of the calling goroutine
    spawned,        \* number of workers started
    sent,           \* number of URLs the producer loop has sent
    urlChan,        \* buffered channel: indices into snapUrls, in order
    chanClosed,     \* close(urlChan) has happened
    wpc,            \* position of each worker
    wtask,          \* index of the URL a worker is processing (0: none)
    wlines,         \* strings.Split(body, "\n") of the worker's response
    wi,             \* index of the line the worker's loop is at
    report,         \* <domain>.snapshots.txt: the writes, in file order
    summaryTable,   \* rows appended to the summary table
    smu,            \* the sync.Mutex of fetchSnapshots
    swg,            \* the sync.WaitGroup of fetchSnapshots
    reqCount,       \* requests issued per URL index
    outcome,        \* the response each URL index got (NoResp: not yet)
    taken,          \* times each URL index was received from urlChan
    configWorkers,  \* config.NumWorkers as loadConfig returned it
    wlast,          \* what each worker did last: "none", "request", "sleep"
    ctxDone,        \* the ctx argument is cancelled or past its deadline
    late,           \* URL indices received from urlChan after ctxDone
    \* ---- fetchURLsConcurrently (network.go:52) ----
    fpc,            \* position of the calling goroutine
    numWorkers,     \* the numWorkers argument
    fresp,          \* the response of http.Get
    flines,         \* lines collected by the scanner loop
    fnext,          \* the loop variable i of the chunk loop
    fresults,       \* results [][]string, one slot per worker
    fwg,            \* the sync.WaitGroup
    cpc,            \* position of each chunk goroutine
    clocal,         \* localURLs of each chunk goroutine
    fret,           \* the returned []string
    ferr,           \* the returned error
    \* ---- runGhostHunter (main.go:41) ----
    runpc,          \* position of runGhostHunter
    runErr,         \* the error runGhostHunter returns
    dirCreated,     \* os.MkdirAll created results/<domain>
    fetcherpc,      \* position of the fetcher goroutine
    toSend,         \* lines the fetcher has still to deliver
    urlsChan,       \* the URL channel
    urlsClosed,     \* the URL channel is closed
    errChan,        \* the error channel
    fetchFailed,    \* the index fetch failed
    filteredURLs,   \* the slice filterURLs builds
    probes,         \* the connectivity probes made so far, with results
    \* ---- filterURLs (processor.go:16) ----
    filterpc,       \* "start", "applied", "reapplied"
    data,           \* the data argument
    extensions,     \* the extensions argument
    filterOut,      \* filterURLs(data, extensions)
    filterAgain,    \* filterURLs of the joined filterOut
    filterGroups,   \* extensionMap built from filterOut
    \* ---- loadConfig (config.go:25) ----
    loadpc,         \* "load", "returned", "exited"
    configFile,     \* config.json: "unreadable", "invalid", "noext", "ok"
    fileNumWorkers, \* numWorkers of config.json (0 when absent)
    numCPU,         \* runtime.NumCPU()
    loadedWorkers,  \* NumWorkers of the Config returned
    \* ---- searchSnapshots (scanner.go:857) over results/<domain> ----
    sesspc,         \* "idle", "select", "read", "fetch"
    resultsDir,     \* results/<domain>: file name -> content
    savedExts,      \* extensions a first pass wrote a group file for
    available,      \* result of listAvailableExtensions
    selectedExtensions, \* result of selectExtensions
    sessUrls,       \* the list handed to fetchSnapshots
    passes,         \* number of passes made
    \* ---- fetchURLsConcurrently, channel variant (scanner.go:116) ----
    cfpc,           \* position of the calling goroutine
    cfNumWorkers,   \* the numWorkers argument
    cfSpawned,      \* number of workers started
    cfResp,         \* what http.Get and io.ReadAll give
    cfLines,        \* strings.Split(string(body), "\n")
    cfNext,         \* index of the next line of the send loop
    cfChan,         \* urlChan: the buffered lines
    cfClosed,       \* urlChan is closed
    cfUrls,         \* the shared urls slice
    cfMu,           \* sync.Mutex: NoHolder or <<w>>
    cfWg,           \* sync.WaitGroup counter
    cwpc,           \* position of each worker
    cwurl,          \* the line a worker received
    cfRet,          \* the slice returned
    cfErr,          \* the error returned
    \* ---- fetchSnapshots, sequential JSON variant (scanner.go:362) ----
    jspc,           \* "loop", "returned", "panicked"
    jsUrls,         \* the urls argument
    jsIdx,          \* index of the URL the loop is at
    jsGot,          \* the response each URL got (NoResp before)
    jsSnapshots,    \* the snapshots map
    jsRet,          \* the map returned (empty for nil)
    jsErr           \* the error returned

saveVars == <<urls, savepc, extensionMap, table, totalURLs, mu, wg, gpc,
              gtmp, gerr, files, writeAttempts>>

snapVars == <<snapUrls, snappc, spawned, sent, urlChan, chanClosed, wpc,
              wtask, wlines, wi, report, summaryTable, smu, swg, reqCount,
              outcome, taken, configWorkers, wlast, ctxDone, late>>

fetchVars == <<fpc, numWorkers, fresp, flines, fnext, fresults, fwg, cpc,
               clocal, fret, ferr>>

runVars == <<runpc, runErr, dirCreated, fetcherpc, toSend, urlsChan,
             urlsClosed, errChan, fetchFailed, filteredURLs, probes>>

filterVars == <<filterpc, data, extensions, filterOut, filterAgain,
                filterGroups>>

loadVars == <<loadpc, configFile, fileNumWorkers, numCPU, loadedWorkers>>

sessVars == <<sesspc, resultsDir, savedExts, available, selectedExtensions,
              sessUrls, passes>>

chanVars == <<cfpc, cfNumWorkers, cfSpawned, cfResp, cfLines, cfNext, cfChan,
              cfClosed, cfUrls, cfMu, cfWg, cwpc, cwurl, cfRet, cfErr>>

jsonVars == <<jspc, jsUrls, jsIdx, jsGot, jsSnapshots, jsRet, jsErr>>

vars == <<saveVars, snapVars, fetchVars, runVars, filterVars, loadVars,
         sessVars,
         chanVars,
         jsonVars>>

\* what the actions of each function leave alone
notSave == <<snapVars, fetchVars, runVars, filterVars, loadVars, sessVars,
             chanVars, jsonVars>>
notSnap == <<saveVars, fetchVars, runVars, filterVars, loadVars, sessVars,
             chanVars, jsonVars>>
notFetch == <<saveVars, snapVars, runVars, filterVars, loadVars, sessVars,
              chanVars, jsonVars>>
notRun == <<snapVars, fetchVars, filterVars, loadVars, sessVars, chanVars,
            jsonVars>>
notFilter == <<saveVars, snapVars, fetchVars, runVars, loadVars, sessVars,
               chanVars, jsonVars>>
notLoad == <<saveVars, snapVars, fetchVars, runVars, filterVars, sessVars,
             chanVars, jsonVars>>
notSess == <<saveVars, snapVars, fetchVars, runVars, filterVars, loadVars,
             chanVars, jsonVars>>
notChan == <<saveVars, snapVars, fetchVars, runVars, filterVars, loadVars,
             sessVars, jsonVars>>
notJson == <<saveVars, snapVars, fetchVars, runVars, filterVars, loadVars,
             sessVars, chanVars>>

----------------------------------------------------------------------------
(* Bounds *)

MaxURLs == 3
MaxSnapURLs == 2
MaxFetchWorkers == 2
MaxRunLines == 2
MaxQueueURLs == 6
MaxFilterLines == 3
MaxConfigured == 8
MaxCPU == 4

----------------------------------------------------------------------------
(* Characters and strings *)

LowerChars == {"a","b","c","d","e","f","g","h","i","j","k","l","m",
               "n","o","p","q","r","s","t","u","v","w","x","y","z"}
UpperChars == {"A","B","C","D","E","F","G","H","I","J","K","L","M",
               "N","O","P","Q","R","S","T","U","V","W","X","Y","Z"}
DigitChars == {"0","1","2","3","4","5","6","7","8","9"}

\* the character class [a-zA-Z0-9]
IsAlnum(c) == c \in LowerChars \cup UpperChars \cup DigitChars

NL == "\n"

Min(S) == CHOOSE x \in S : \A y \in S : x <= y

\* a join that ends every element, the last one included, with sep
RECURSIVE JoinTerminated(_, _)
JoinTerminated(elems, sep) ==
    IF elems = <<>> THEN <<>>
    ELSE elems[1] \o sep \o JoinTerminated(Tail(elems), sep)

\* strings.Join(elems, sep)
RECURSIVE Join(_, _)
Join(elems, sep) ==
    IF elems = <<>> THEN <<>>
    ELSE IF Len(elems) = 1 THEN elems[1]
    ELSE elems[1] \o sep \o Join(Tail(elems), sep)

\* strings.Split(s, sep) for a one-character separator: always at least one
\* element, a trailing separator yields a trailing empty element
RECURSIVE SplitFrom(_, _, _, _)
SplitFrom(s, c, i, cur) ==
    IF i > Len(s) THEN <<cur>>
    ELSE IF s[i] = c THEN <<cur>> \o SplitFrom(s, c, i + 1, <<>>)
    ELSE SplitFrom(s, c, i + 1, Append(cur, s[i]))

Split(s, c) == SplitFrom(s, c, 1, <<>>)

----------------------------------------------------------------------------
(* The extension regular expression of saveResultsByExtension             *)
(* (processor.go:35): a literal dot, one or more characters of the class  *)
(* [a-zA-Z0-9], an optional group of '?' and any characters, end of text. *)

\* last index of the maximal alphanumeric run that starts at j (j-1 if none)
RECURSIVE AlnumRunEnd(_, _)
AlnumRunEnd(s, j) ==
    IF j > Len(s) \/ ~IsAlnum(s[j]) THEN j - 1
    ELSE AlnumRunEnd(s, j + 1)

\* the optional query group and the end anchor after position k: end of
\* text, or '?' and then no newline ('.' does not match a newline and '$'
\* is the end of the text)
QueryTailAt(s, k) ==
    \/ k = Len(s)
    \/ /\ k < Len(s)
       /\ s[k + 1] = "?"
       /\ \A n \in (k + 2)..Len(s) : s[n] # NL

\* an expression without the optional query group
ExtMatchAtNoQuery(s, i) ==
    /\ s[i] = "."
    /\ AlnumRunEnd(s, i + 1) = Len(s)
    /\ AlnumRunEnd(s, i + 1) >= i + 1

\* the expression matches with its '.' at position i
ExtMatchAt(s, i) ==
    /\ s[i] = "."
    /\ AlnumRunEnd(s, i + 1) >= i + 1
    /\ QueryTailAt(s, AlnumRunEnd(s, i + 1))

NoMatch == <<"<nomatch>">>

\* re.FindStringSubmatch(url)[1]: the leftmost match decides
FindExt(url) ==
    LET I == {i \in 1..Len(url) : ExtMatchAt(url, i)}
    IN  IF I = {} THEN NoMatch
        ELSE SubSeq(url, Min(I) + 1, AlnumRunEnd(url, Min(I) + 1))

\* the grouping loop: extensionMap[ext] = append(extensionMap[ext], url)
RECURSIVE GroupByExt(_, _, _)
GroupByExt(us, i, m) ==
    IF i > Len(us) THEN m
    ELSE LET ext == FindExt(us[i])
         IN  IF ext = NoMatch THEN GroupByExt(us, i + 1, m)
             ELSE IF ext \in DOMAIN m
                  THEN GroupByExt(us, i + 1,
                                  [m EXCEPT ![ext] = Append(@, us[i])])
                  ELSE GroupByExt(us, i + 1,
                                  [e \in DOMAIN m \cup {ext} |->
                                      IF e = ext THEN <<us[i]>> ELSE m[e]])

EmptyMap == [e \in {} |-> <<>>]

----------------------------------------------------------------------------
(* saveResultsByExtension                                                  *)

Domain == <<"d">>

\* fmt.Sprintf("%s.%s.txt", domain, ext)
FileName(domain, ext) == domain \o <<".">> \o ext \o <<".", "t", "x", "t">>

\* the mutex is free: no goroutine identity is the empty tuple
NoHolder == <<>>

\* filtered URLs the aggregator is called with
URLPool == { <<"a", ".", "p">>,
             <<"b", ".", "p">>,
             <<"a", ".", "q">>,
             <<"c", ".", "r", "?", "x">> }

RECURSIVE SeqsUpTo(_, _)
SeqsUpTo(S, n) ==
    IF n = 0 THEN {<<>>}
    ELSE LET P == SeqsUpTo(S, n - 1)
         IN  P \cup {Append(p, x) : p \in {q \in P : Len(q) = n - 1}, x \in S}

Groups == DOMAIN extensionMap

InitSaveVars ==
    /\ urls \in SeqsUpTo(URLPool, MaxURLs)
    /\ savepc = "group"
    /\ extensionMap = EmptyMap
    /\ table = <<>>
    /\ totalURLs = 0
    /\ mu = NoHolder
    /\ wg = 0
    /\ gpc = EmptyMap
    /\ gtmp = EmptyMap
    /\ gerr = EmptyMap
    /\ files = EmptyMap
    /\ writeAttempts = EmptyMap

\* processor.go:34-43
SaveBuildMap ==
    /\ savepc = "group"
    /\ extensionMap' = GroupByExt(urls, 1, EmptyMap)
    /\ gpc' = [e \in DOMAIN extensionMap' |-> "unspawned"]
    /\ gtmp' = [e \in DOMAIN extensionMap' |-> 0]
    /\ gerr' = [e \in DOMAIN extensionMap' |-> "none"]
    /\ writeAttempts' = [e \in DOMAIN extensionMap' |-> 0]
    /\ savepc' = "spawn"
    /\ UNCHANGED notSave
    /\ UNCHANGED <<urls, table, totalURLs, mu, wg, files>>

\* processor.go:65-67: one iteration of the range over the map (Go iterates
\* a map in an unspecified order): wg.Add(1); go func(ext, urls)
SaveSpawn(ext) ==
    /\ savepc = "spawn"
    /\ gpc[ext] = "unspawned"
    /\ wg' = wg + 1
    /\ gpc' = [gpc EXCEPT ![ext] = "write"]
    /\ UNCHANGED notSave
    /\ UNCHANGED <<urls, savepc, extensionMap, table, totalURLs, mu, gtmp,
                   gerr, files, writeAttempts>>

\* the range loop is over when every group has its goroutine
SaveSpawnEnd ==
    /\ savepc = "spawn"
    /\ \A e \in Groups : gpc[e] # "unspawned"
    /\ savepc' = "wait"
    /\ UNCHANGED notSave
    /\ UNCHANGED <<urls, extensionMap, table, totalURLs, mu, wg, gpc, gtmp,
                   gerr, files, writeAttempts>>

\* processor.go:69-73: os.WriteFile(filePath, []byte(content), 0644)
GoWriteFile(ext, ok) ==
    /\ gpc[ext] = "write"
    /\ writeAttempts' = [writeAttempts EXCEPT ![ext] = @ + 1]
    /\ gerr' = [gerr EXCEPT ![ext] = IF ok THEN "nil" ELSE "err"]
    /\ files' = IF ok
                THEN LET fn == FileName(Domain, ext)
                         content == Join(extensionMap[ext], <<NL>>)
                     IN  [f \in DOMAIN files \cup {fn} |->
                             IF f = fn THEN content ELSE files[f]]
                ELSE files
    /\ gpc' = [gpc EXCEPT ![ext] = "lockRow"]
    /\ UNCHANGED notSave
    /\ UNCHANGED <<urls, savepc, extensionMap, table, totalURLs, mu, wg,
                   gtmp>>

\* a mutex that excludes nobody
LockFreeNoExclusion(holder) == TRUE

\* sync.Mutex.Lock returns only when no goroutine holds the mutex
LockFree(holder) == holder = NoHolder

\* processor.go:74 / 78: mu.Lock()
GoLockRow(ext) ==
    /\ gpc[ext] = "lockRow"
    /\ LockFree(mu)
    /\ mu' = ext
    /\ gpc' = [gpc EXCEPT ![ext] = "appendRow"]
    /\ UNCHANGED notSave
    /\ UNCHANGED <<urls, savepc, extensionMap, table, totalURLs, wg, gtmp,
                   gerr, files, writeAttempts>>

\* a row that reports Success whatever os.WriteFile returned
GroupRowAlwaysSuccess(ext, err, n) ==
    [ext      |-> ext,
     fileName |-> FileName(Domain, ext),
     status   |-> "Success",
     count    |-> n]

\* the row of one group: {ext, fileName, status, "%d URLs"}
GroupRow(ext, err, n) ==
    [ext      |-> ext,
     fileName |-> FileName(Domain, ext),
     status   |-> IF err = "nil" THEN "Success" ELSE "Failed",
     count    |-> n]

\* processor.go:75 / 79: table.Append
GoAppendRow(ext) ==
    /\ gpc[ext] = "appendRow"
    /\ table' = Append(table,
                       GroupRow(ext, gerr[ext], Len(extensionMap[ext])))
    /\ gpc' = [gpc EXCEPT ![ext] = "unlockRow"]
    /\ UNCHANGED notSave
    /\ UNCHANGED <<urls, savepc, extensionMap, totalURLs, mu, wg, gtmp, gerr,
                   files, writeAttempts>>

\* an error branch that returns without mu.Unlock()
GoUnlockRowKeptOnError(ext) ==
    /\ gpc[ext] = "unlockRow"
    /\ mu' = IF gerr[ext] = "err" THEN mu ELSE NoHolder
    /\ gpc' = [gpc EXCEPT ![ext] = "lockTotal"]
    /\ UNCHANGED notSave
    /\ UNCHANGED <<urls, savepc, extensionMap, table, totalURLs, wg, gtmp,
                   gerr, files, writeAttempts>>

\* processor.go:76 / 80: mu.Unlock()
GoUnlockRow(ext) ==
    /\ gpc[ext] = "unlockRow"
    /\ mu' = NoHolder
    /\ gpc' = [gpc EXCEPT ![ext] = "lockTotal"]
    /\ UNCHANGED notSave
    /\ UNCHANGED <<urls, savepc, extensionMap, table, totalURLs, wg, gtmp,
                   gerr, files, writeAttempts>>

\* processor.go:82: mu.Lock()
GoLockTotal(ext) ==
    /\ gpc[ext] = "lockTotal"
    /\ LockFree(mu)
    /\ mu' = ext
    /\ gpc' = [gpc EXCEPT ![ext] = "loadTotal"]
    /\ UNCHANGED notSave
    /\ UNCHANGED <<urls, savepc, extensionMap, table, totalURLs, wg, gtmp,
                   gerr, files, writeAttempts>>

\* processor.go:83: totalURLs += len(urls), the read
GoLoadTotal(ext) ==
    /\ gpc[ext] = "loadTotal"
    /\ gtmp' = [gtmp EXCEPT ![ext] = totalURLs]
    /\ gpc' = [gpc EXCEPT ![ext] = "storeTotal"]
    /\ UNCHANGED notSave
    /\ UNCHANGED <<urls, savepc, extensionMap, table, totalURLs, mu, wg, gerr,
                   files, writeAttempts>>

\* processor.go:83: totalURLs += len(urls), the write
GoStoreTotal(ext) ==
    /\ gpc[ext] = "storeTotal"
    /\ totalURLs' = gtmp[ext] + Len(extensionMap[ext])
    /\ gpc' = [gpc EXCEPT ![ext] = "unlockTotal"]
    /\ UNCHANGED notSave
    /\ UNCHANGED <<urls, savepc, extensionMap, table, mu, wg, gtmp, gerr,
                   files, writeAttempts>>

\* processor.go:84 and the deferred wg.Done() of line 68
GoUnlockTotal(ext) ==
    /\ gpc[ext] = "unlockTotal"
    /\ mu' = NoHolder
    /\ wg' = wg - 1
    /\ gpc' = [gpc EXCEPT ![ext] = "done"]
    /\ UNCHANGED notSave
    /\ UNCHANGED <<urls, savepc, extensionMap, table, totalURLs, gtmp, gerr,
                   files, writeAttempts>>

\* scanner.go:232 and unnamed/part_001:162: totalURLs += len(urls) with
\* mu not held, the read
OldGoLoadTotal(ext) ==
    /\ gpc[ext] = "lockTotal"
    /\ gtmp' = [gtmp EXCEPT ![ext] = totalURLs]
    /\ gpc' = [gpc EXCEPT ![ext] = "oldStoreTotal"]
    /\ UNCHANGED notSave
    /\ UNCHANGED <<urls, savepc, extensionMap, table, totalURLs, mu, wg, gerr,
                   files, writeAttempts>>

\* scanner.go:232 and unnamed/part_001:162: the write, and the deferred
\* wg.Done()
OldGoStoreTotal(ext) ==
    /\ gpc[ext] = "oldStoreTotal"
    /\ totalURLs' = gtmp[ext] + Len(extensionMap[ext])
    /\ wg' = wg - 1
    /\ gpc' = [gpc EXCEPT ![ext] = "done"]
    /\ UNCHANGED notSave
    /\ UNCHANGED <<urls, savepc, extensionMap, table, mu, gtmp, gerr, files,
                   writeAttempts>>

\* a caller that does not wait for the goroutines
WaitReturnsAtOnce(counter) == TRUE

\* sync.WaitGroup.Wait returns when the counter is zero
WaitReturns(counter) == counter = 0

NoCount == 0 - 1

\* processor.go:87-94: wg.Wait(), then the spacing, separator and TOTAL rows
SaveTotalRow ==
    /\ savepc = "wait"
    /\ WaitReturns(wg)
    /\ table' = table \o
         << [ext |-> <<>>, fileName |-> <<>>, status |-> "", count |-> NoCount],
            [ext |-> <<>>, fileName |-> <<>>, status |-> "-------------------",
             count |-> NoCount],
            [ext |-> <<>>, fileName |-> <<>>, status |-> "TOTAL",
             count |-> totalURLs] >>
    /\ savepc' = "done"
    /\ UNCHANGED notSave
    /\ UNCHANGED <<urls, extensionMap, totalURLs, mu, wg, gpc, gtmp, gerr,
                   files, writeAttempts>>

SaveIdle ==
    /\ urls = <<>>
    /\ savepc = "off"
    /\ extensionMap = EmptyMap
    /\ table = <<>>
    /\ totalURLs = 0
    /\ mu = NoHolder
    /\ wg = 0
    /\ gpc = EmptyMap
    /\ gtmp = EmptyMap
    /\ gerr = EmptyMap
    /\ files = EmptyMap
    /\ writeAttempts = EmptyMap


----------------------------------------------------------------------------
(* fetchSnapshots (scanner.go:714-854): text helpers                       *)

DefaultNumWorkers == 5

Workers == 1..DefaultNumWorkers

\* unicode.IsSpace on the characters used here
IsSpace(c) == c \in {" ", "\t", "\r", NL}

\* strings.Fields(s): the maximal runs of non-space characters
RECURSIVE FieldsFrom(_, _, _)
FieldsFrom(s, i, cur) ==
    IF i > Len(s) THEN (IF cur = <<>> THEN <<>> ELSE <<cur>>)
    ELSE IF IsSpace(s[i])
         THEN (IF cur = <<>> THEN <<>> ELSE <<cur>>) \o FieldsFrom(s, i + 1, <<>>)
         ELSE FieldsFrom(s, i + 1, Append(cur, s[i]))

Fields(s) == FieldsFrom(s, 1, <<>>)

\* strings.Contains(s, sub)
Contains(s, sub) ==
    \E i \in 1..(Len(s) - Len(sub) + 1) : SubSeq(s, i, i + Len(sub) - 1) = sub

HtmlTag == <<"<", "h", "t", "m", "l", ">">>

DigitVal(c) ==
    CASE c = "0" -> 0 [] c = "1" -> 1 [] c = "2" -> 2 [] c = "3" -> 3
      [] c = "4" -> 4 [] c = "5" -> 5 [] c = "6" -> 6 [] c = "7" -> 7
      [] c = "8" -> 8 [] c = "9" -> 9

\* the decimal number written at positions i..j of s
RECURSIVE NumAt(_, _, _)
NumAt(s, i, j) ==
    IF j < i THEN 0 ELSE 10 * NumAt(s, i, j - 1) + DigitVal(s[j])

IsLeap(y) == (y % 4 = 0 /\ y % 100 # 0) \/ y % 400 = 0

DaysIn(m, y) ==
    IF m = 2 THEN (IF IsLeap(y) THEN 29 ELSE 28)
    ELSE IF m \in {4, 6, 9, 11} THEN 30 ELSE 31

\* time.Parse("20060102150405", ts) returns no error: exactly fourteen
\* digits, and month, day, hour, minute and second in range
ValidTimestamp(ts) ==
    /\ Len(ts) = 14
    /\ \A i \in 1..14 : ts[i] \in DigitChars
    /\ NumAt(ts, 5, 6) \in 1..12
    /\ NumAt(ts, 7, 8) \in 1..DaysIn(NumAt(ts, 5, 6), NumAt(ts, 1, 4))
    /\ NumAt(ts, 9, 10) < 24
    /\ NumAt(ts, 11, 12) < 60
    /\ NumAt(ts, 13, 14) < 60

ArchivePrefix ==
    <<"h","t","t","p","s",":","/","/","w","e","b",".","a","r","c","h","i",
      "v","e",".","o","r","g","/","w","e","b","/">>

\* a format without the '/' between the timestamp and the URL
SnapshotURLNoSlash(timestamp, originalURL) ==
    ArchivePrefix \o timestamp \o originalURL

\* fmt.Sprintf("https://web.archive.org/web/%s/%s", timestamp, originalURL)
SnapshotURL(timestamp, originalURL) ==
    ArchivePrefix \o timestamp \o <<"/">> \o originalURL

\* http.NewRequestWithContext fails on a URL with a control character
HasCTL(u) == \E i \in 1..Len(u) : u[i] \in {"\t", "\r", NL}

----------------------------------------------------------------------------
(* fetchSnapshots: inputs                                                  *)

\* lines of the group files; strings.Split of a file leaves empty strings
SnapURLPool == { <<>>, <<"a", ".", "p">>, <<"b", ".", "p">> }

TsValid == <<"2","0","2","5","0","1","2","3","1","5","4","6","0","9">>
TsShort == <<"2","0","2","5","0","1">>

CdxLine(ts, u) == ts \o <<" ">> \o u

\* bodies the index may answer with for URL u
BodyPool(u) ==
    { <<>>,
      HtmlTag,
      CdxLine(TsValid, u) \o <<NL>>,
      CdxLine(TsValid, u),
      CdxLine(TsShort, u) \o <<NL>> \o CdxLine(TsValid, u) \o <<NL>>,
      CdxLine(TsShort, u) \o <<NL>> }

\* a response: err is a transport error of httpClient.Do, code the status,
\* readerr an error of io.ReadAll, body the text read
Resp(err, code, readerr, body) ==
    [err |-> err, code |-> code, readerr |-> readerr, body |-> body]

NoResp == Resp(FALSE, 0, FALSE, <<>>)

Responses(u) ==
    { Resp(TRUE, 0, FALSE, <<>>),
      Resp(FALSE, 429, FALSE, <<>>),
      Resp(FALSE, 500, FALSE, <<>>),
      Resp(FALSE, 200, TRUE, <<>>) }
    \cup { Resp(FALSE, 200, FALSE, b) : b \in BodyPool(u) }

\* the URL lists of a pass: the index query collapses by urlkey, so a
\* non-empty URL occurs once
SnapInputs ==
    { us \in SeqsUpTo(SnapURLPool, MaxSnapURLs) :
        \A i, j \in 1..Len(us) : (i # j /\ us[i] = us[j]) => us[i] = <<>> }

\* URL lists that reach past the capacity of urlChan: the blank lines that
\* strings.Split leaves in the list (scanner.go:893) fill the queue
QueueInputs ==
    { us \in SeqsUpTo({<<>>, <<"a", ".", "p">>}, MaxQueueURLs) :
        \A i, j \in 1..Len(us) : (i # j /\ us[i] = us[j]) => us[i] = <<>> }

\* values of config.NumWorkers after the defaulting and the clamp of
\* loadConfig: positive, at most twice the CPU count
ConfigWorkersPool == {2, DefaultNumWorkers}

Tasks == 1..Len(snapUrls)

\* the responses worker w may get for the URL it holds
ResponsesFor(w) ==
    IF wtask[w] = 0 THEN {} ELSE Responses(snapUrls[wtask[w]])

----------------------------------------------------------------------------
(* fetchSnapshots: the calling goroutine                                   *)

InitSnapWith(inputs) ==
    /\ snapUrls \in inputs
    /\ snappc = "mkdir"
    /\ spawned = 0
    /\ sent = 0
    /\ urlChan = <<>>
    /\ chanClosed = FALSE
    /\ wpc = [w \in Workers |-> "unspawned"]
    /\ wtask = [w \in Workers |-> 0]
    /\ wlines = [w \in Workers |-> <<>>]
    /\ wi = [w \in Workers |-> 0]
    /\ report = <<>>
    /\ summaryTable = <<>>
    /\ smu = NoHolder
    /\ swg = 0
    /\ reqCount = [i \in 1..Len(snapUrls) |-> 0]
    /\ outcome = [i \in 1..Len(snapUrls) |-> NoResp]
    /\ taken = [i \in 1..Len(snapUrls) |-> 0]
    /\ configWorkers \in ConfigWorkersPool
    /\ wlast = [w \in Workers |-> "none"]
    /\ ctxDone = FALSE
    /\ late = {}

InitSnapVars == InitSnapWith(SnapInputs)

\* the pass is not running
SnapIdle ==
    /\ snapUrls = <<>>
    /\ snappc = "off"
    /\ spawned = 0
    /\ sent = 0
    /\ urlChan = <<>>
    /\ chanClosed = FALSE
    /\ wpc = [w \in Workers |-> "unspawned"]
    /\ wtask = [w \in Workers |-> 0]
    /\ wlines = [w \in Workers |-> <<>>]
    /\ wi = [w \in Workers |-> 0]
    /\ report = <<>>
    /\ summaryTable = <<>>
    /\ smu = NoHolder
    /\ swg = 0
    /\ reqCount = <<>>
    /\ outcome = <<>>
    /\ taken = <<>>
    /\ configWorkers = DefaultNumWorkers
    /\ wlast = [w \in Workers |-> "none"]
    /\ ctxDone = FALSE
    /\ late = {}

\* scanner.go:719-723: os.MkdirAll; on failure the function returns
SnapMkdirAll(ok) ==
    /\ snappc = "mkdir"
    /\ snappc' = IF ok THEN "create" ELSE "done"
    /\ UNCHANGED notSnap
    /\ UNCHANGED <<taken, configWorkers, wlast, ctxDone, late>>
    /\ UNCHANGED <<snapUrls, spawned, sent, urlChan, chanClosed, wpc, wtask,
                   wlines, wi, report, summaryTable, smu, swg, reqCount,
                   outcome>>

\* scanner.go:725-731: os.Create truncates the report; on failure the
\* function returns
SnapCreate(ok) ==
    /\ snappc = "create"
    /\ snappc' = IF ok THEN "spawn" ELSE "done"
    /\ report' = IF ok THEN <<>> ELSE report
    /\ UNCHANGED notSnap
    /\ UNCHANGED <<taken, configWorkers, wlast, ctxDone, late>>
    /\ UNCHANGED <<snapUrls, spawned, sent, urlChan, chanClosed, wpc, wtask,
                   wlines, wi, summaryTable, smu, swg, reqCount, outcome>>

\* scanner.go:836-839: wg.Add(1); go worker()
SnapSpawn ==
    /\ snappc = "spawn"
    /\ spawned < DefaultNumWorkers
    /\ spawned' = spawned + 1
    /\ swg' = swg + 1
    /\ wpc' = [wpc EXCEPT ![spawned + 1] = "recv"]
    /\ UNCHANGED notSnap
    /\ UNCHANGED <<taken, configWorkers, wlast, ctxDone, late>>
    /\ UNCHANGED <<snapUrls, snappc, sent, urlChan, chanClosed, wtask, wlines,
                   wi, report, summaryTable, smu, reqCount, outcome>>

SnapSpawnEnd ==
    /\ snappc = "spawn"
    /\ spawned = DefaultNumWorkers
    /\ snappc' = "send"
    /\ UNCHANGED notSnap
    /\ UNCHANGED <<taken, configWorkers, wlast, ctxDone, late>>
    /\ UNCHANGED <<snapUrls, spawned, sent, urlChan, chanClosed, wpc, wtask,
                   wlines, wi, report, summaryTable, smu, swg, reqCount,
                   outcome>>

\* a channel that takes every send at once
ChanHasRoomUnbounded(ch) == TRUE

\* scanner.go:717: make(chan string, numWorkers): a send goes through
\* while fewer than numWorkers elements are buffered
ChanHasRoom(ch) == Len(ch) < DefaultNumWorkers

\* scanner.go:841-843: urlChan <- url blocks while the buffer is full
SnapSend ==
    /\ snappc = "send"
    /\ sent < Len(snapUrls)
    /\ ChanHasRoom(urlChan)
    /\ urlChan' = Append(urlChan, sent + 1)
    /\ sent' = sent + 1
    /\ UNCHANGED notSnap
    /\ UNCHANGED <<taken, configWorkers, wlast, ctxDone, late>>
    /\ UNCHANGED <<snapUrls, snappc, spawned, chanClosed, wpc, wtask, wlines,
                   wi, report, summaryTable, smu, swg, reqCount, outcome>>

\* the producer goes on to wg.Wait() and leaves urlChan open
SnapCloseForgotten ==
    /\ snappc = "send"
    /\ sent = Len(snapUrls)
    /\ snappc' = "wait"
    /\ UNCHANGED notSnap
    /\ UNCHANGED <<taken, configWorkers, wlast, ctxDone, late>>
    /\ UNCHANGED <<snapUrls, spawned, sent, urlChan, chanClosed, wpc, wtask,
                   wlines, wi, report, summaryTable, smu, swg, reqCount,
                   outcome>>

\* scanner.go:844: close(urlChan)
SnapClose ==
    /\ snappc = "send"
    /\ sent = Len(snapUrls)
    /\ chanClosed' = TRUE
    /\ snappc' = "wait"
    /\ UNCHANGED notSnap
    /\ UNCHANGED <<taken, configWorkers, wlast, ctxDone, late>>
    /\ UNCHANGED <<snapUrls, spawned, sent, urlChan, wpc, wtask, wlines, wi,
                   report, summaryTable, smu, swg, reqCount, outcome>>

\* scanner.go:845-853: wg.Wait(), then the summary is rendered
SnapWait ==
    /\ snappc = "wait"
    /\ WaitReturns(swg)
    /\ snappc' = "done"
    /\ UNCHANGED notSnap
    /\ UNCHANGED <<taken, configWorkers, wlast, ctxDone, late>>
    /\ UNCHANGED <<snapUrls, spawned, sent, urlChan, chanClosed, wpc, wtask,
                   wlines, wi, report, summaryTable, smu, swg, reqCount,
                   outcome>>

----------------------------------------------------------------------------
(* fetchSnapshots: the workers (scanner.go:747-834)                        *)

\* Workers blocked in the receive of "for url := range urlChan" are all in
\* the same local state; the lowest-numbered one stands for whichever of
\* them the runtime wakes.
AtRecv(w) ==
    /\ wpc[w] = "recv"
    /\ \A v \in Workers : wpc[v] = "recv" => w <= v

\* a worker back at the head of its loop holds no URL
ToRecv(w) ==
    /\ wpc' = [wpc EXCEPT ![w] = "recv"]
    /\ wtask' = [wtask EXCEPT ![w] = 0]
    /\ wlines' = [wlines EXCEPT ![w] = <<>>]
    /\ wi' = [wi EXCEPT ![w] = 0]

\* scanner.go:749-759: receive a URL; an empty URL and a URL no request can
\* be built for are skipped
WRecv(w) ==
    /\ AtRecv(w)
    /\ urlChan # <<>>
    /\ urlChan' = Tail(urlChan)
    /\ LET i == Head(urlChan)
       IN  IF snapUrls[i] = <<>> \/ HasCTL(snapUrls[i])
           THEN UNCHANGED <<wpc, wtask>>
           ELSE /\ wpc' = [wpc EXCEPT ![w] = "request"]
                /\ wtask' = [wtask EXCEPT ![w] = i]
    /\ UNCHANGED notSnap
    /\ taken' = [taken EXCEPT ![Head(urlChan)] = @ + 1]
    /\ late' = IF ctxDone THEN late \cup {Head(urlChan)} ELSE late
    /\ UNCHANGED <<configWorkers, wlast, ctxDone>>
    /\ UNCHANGED <<snapUrls, snappc, spawned, sent, chanClosed, wlines, wi,
                   report, summaryTable, smu, swg, reqCount, outcome>>

\* scanner.go:748-749: the range ends when the channel is closed and
\* drained; the deferred wg.Done() runs
WExit(w) ==
    /\ AtRecv(w)
    /\ urlChan = <<>>
    /\ chanClosed
    /\ wpc' = [wpc EXCEPT ![w] = "done"]
    /\ swg' = swg - 1
    /\ UNCHANGED notSnap
    /\ UNCHANGED <<taken, configWorkers, wlast, ctxDone, late>>
    /\ UNCHANGED <<snapUrls, snappc, spawned, sent, urlChan, chanClosed, wtask,
                   wlines, wi, report, summaryTable, smu, reqCount, outcome>>

\* scanner.go:760-790: where the worker goes with response r
AfterResponseUnchecked(r) ==
    IF r.err THEN "recv"
    ELSE IF r.code = 429 THEN "backoff"
    ELSE IF Len(Split(r.body, NL)) > 1 THEN "header"
    ELSE "nosnap"

AfterResponse(r) ==
    IF r.err THEN "recv"
    ELSE IF r.code = 429 THEN "backoff"
    ELSE IF r.code # 200 THEN "recv"
    ELSE IF r.readerr THEN "recv"
    ELSE IF Len(r.body) = 0 \/ Contains(r.body, HtmlTag) THEN "recv"
    ELSE IF Len(Split(r.body, NL)) > 1 THEN "header"
    ELSE "nosnap"

\* a client that answers whatever the state of the context
CtxAllowsIgnored(r) == TRUE

\* scanner.go:755-760: the request carries ctx; httpClient.Do on a context
\* that is done returns the error of the context
CtxAllows(r) == ctxDone => r.err

\* scanner.go:760-790: httpClient.Do, the status checks, io.ReadAll, the
\* validity check and strings.Split
WRequest(w, r) ==
    /\ wpc[w] = "request"
    /\ r \in ResponsesFor(w)
    /\ CtxAllows(r)
    /\ reqCount' = [reqCount EXCEPT ![wtask[w]] = @ + 1]
    /\ outcome' = [outcome EXCEPT ![wtask[w]] = r]
    /\ IF AfterResponse(r) = "recv"
       THEN ToRecv(w)
       ELSE /\ wpc' = [wpc EXCEPT ![w] = AfterResponse(r)]
            /\ wlines' = [wlines EXCEPT ![w] =
                            IF AfterResponse(r) = "backoff" THEN <<>>
                            ELSE Split(r.body, NL)]
            /\ UNCHANGED <<wtask, wi>>
    /\ UNCHANGED notSnap
    /\ wlast' = [wlast EXCEPT ![w] = "request"]
    /\ UNCHANGED <<taken, configWorkers, ctxDone, late>>
    /\ UNCHANGED <<snapUrls, snappc, spawned, sent, urlChan, chanClosed,
                   report, summaryTable, smu, swg>>

\* a 429 that is answered by asking again
WBackoffRetry(w) ==
    /\ wpc[w] = "backoff"
    /\ wpc' = [wpc EXCEPT ![w] = "request"]
    /\ UNCHANGED notSnap
    /\ UNCHANGED <<taken, configWorkers, wlast, ctxDone, late>>
    /\ UNCHANGED <<snapUrls, snappc, spawned, sent, urlChan, chanClosed, wtask,
                   wlines, wi, report, summaryTable, smu, swg, reqCount,
                   outcome>>

\* scanner.go:767-772: time.Sleep(10 * time.Second); continue
WBackoff(w) ==
    /\ wpc[w] = "backoff"
    /\ ToRecv(w)
    /\ UNCHANGED notSnap
    /\ wlast' = [wlast EXCEPT ![w] = "sleep"]
    /\ UNCHANGED <<taken, configWorkers, ctxDone, late>>
    /\ UNCHANGED <<snapUrls, snappc, spawned, sent, urlChan, chanClosed,
                   report, summaryTable, smu, swg, reqCount, outcome>>

\* one fmt.Fprintf(file, ...) call: the URL index it was made for, what it
\* is, and its arguments
Chunk(i, kind, u, ts, su) ==
    [task |-> i, kind |-> kind, url |-> u, timestamp |-> ts,
     snapshotURL |-> su]

\* scanner.go:795: "Snapshots for URL: %s\n"
WHeader(w) ==
    /\ wpc[w] = "header"
    /\ report' = Append(report, Chunk(wtask[w], "header", snapUrls[wtask[w]],
                                      <<>>, <<>>))
    /\ wi' = [wi EXCEPT ![w] = 1]
    /\ wpc' = [wpc EXCEPT ![w] = "lines"]
    /\ UNCHANGED notSnap
    /\ UNCHANGED <<taken, configWorkers, wlast, ctxDone, late>>
    /\ UNCHANGED <<snapUrls, snappc, spawned, sent, urlChan, chanClosed, wtask,
                   wlines, summaryTable, smu, swg, reqCount, outcome>>

\* scanner.go:798-806: the line yields a record: it is not empty, has two
\* fields and its first field parses as a timestamp
LineIsRecord(line) ==
    /\ line # <<>>
    /\ Len(Fields(line)) >= 2
    /\ ValidTimestamp(Fields(line)[1])

\* a loop over the lines that ends at the first timestamp that does not
\* parse
WLineBreakOnBadTimestamp(w) ==
    /\ wpc[w] = "lines"
    /\ LET line == wlines[w][wi[w]]
           bad == /\ line # <<>>
                  /\ Len(Fields(line)) >= 2
                  /\ ~ValidTimestamp(Fields(line)[1])
       IN  /\ report' =
                 IF LineIsRecord(line)
                 THEN Append(report,
                             Chunk(wtask[w], "record", snapUrls[wtask[w]],
                                   Fields(line)[1],
                                   SnapshotURL(Fields(line)[1],
                                               Fields(line)[2])))
                 ELSE report
           /\ wpc' = [wpc EXCEPT ![w] =
                        IF bad \/ wi[w] = Len(wlines[w]) THEN "lock"
                        ELSE "lines"]
    /\ wi' = [wi EXCEPT ![w] = @ + 1]
    /\ UNCHANGED notSnap
    /\ UNCHANGED <<taken, configWorkers, wlast, ctxDone, late>>
    /\ UNCHANGED <<snapUrls, snappc, spawned, sent, urlChan, chanClosed, wtask,
                   wlines, summaryTable, smu, swg, reqCount, outcome>>

\* scanner.go:797-817: one iteration of the loop over the lines
WLine(w) ==
    /\ wpc[w] = "lines"
    /\ LET line == wlines[w][wi[w]]
       IN  report' =
             IF LineIsRecord(line)
             THEN Append(report,
                         Chunk(wtask[w], "record", snapUrls[wtask[w]],
                               Fields(line)[1],
                               SnapshotURL(Fields(line)[1], Fields(line)[2])))
             ELSE report
    /\ wi' = [wi EXCEPT ![w] = @ + 1]
    /\ wpc' = [wpc EXCEPT ![w] =
                 IF wi[w] = Len(wlines[w]) THEN "lock" ELSE "lines"]
    /\ UNCHANGED notSnap
    /\ UNCHANGED <<taken, configWorkers, wlast, ctxDone, late>>
    /\ UNCHANGED <<snapUrls, snappc, spawned, sent, urlChan, chanClosed, wtask,
                   wlines, summaryTable, smu, swg, reqCount, outcome>>

\* scanner.go:818: mu.Lock()
WLock(w) ==
    /\ wpc[w] = "lock"
    /\ LockFree(smu)
    /\ smu' = <<w>>
    /\ wpc' = [wpc EXCEPT ![w] = "append"]
    /\ UNCHANGED notSnap
    /\ UNCHANGED <<taken, configWorkers, wlast, ctxDone, late>>
    /\ UNCHANGED <<snapUrls, snappc, spawned, sent, urlChan, chanClosed, wtask,
                   wlines, wi, report, summaryTable, swg, reqCount, outcome>>

\* scanner.go:819: the "%d snapshots" figure
SnapshotCount(lines) == Len(lines) - 1

\* scanner.go:819: summaryTable.Append
WAppend(w) ==
    /\ wpc[w] = "append"
    /\ summaryTable' = Append(summaryTable,
                              [task  |-> wtask[w],
                               url   |-> snapUrls[wtask[w]],
                               count |-> SnapshotCount(wlines[w])])
    /\ wpc' = [wpc EXCEPT ![w] = "unlock"]
    /\ UNCHANGED notSnap
    /\ UNCHANGED <<taken, configWorkers, wlast, ctxDone, late>>
    /\ UNCHANGED <<snapUrls, snappc, spawned, sent, urlChan, chanClosed, wtask,
                   wlines, wi, report, smu, swg, reqCount, outcome>>

\* a worker that goes back to the head of the loop with mu still locked
WUnlockKeepsLock(w) ==
    /\ wpc[w] = "unlock"
    /\ ToRecv(w)
    /\ UNCHANGED notSnap
    /\ UNCHANGED <<taken, configWorkers, wlast, ctxDone, late>>
    /\ UNCHANGED <<snapUrls, snappc, spawned, sent, urlChan, chanClosed,
                   report, summaryTable, smu, swg, reqCount, outcome>>

\* scanner.go:820: mu.Unlock(), and back to the head of the loop
WUnlock(w) ==
    /\ wpc[w] = "unlock"
    /\ smu' = NoHolder
    /\ ToRecv(w)
    /\ UNCHANGED notSnap
    /\ UNCHANGED <<taken, configWorkers, wlast, ctxDone, late>>
    /\ UNCHANGED <<snapUrls, snappc, spawned, sent, urlChan, chanClosed,
                   report, summaryTable, swg, reqCount, outcome>>

\* scanner.go:821-824: "No snapshots found for URL: %s\n\n"
WNoSnap(w) ==
    /\ wpc[w] = "nosnap"
    /\ report' = Append(report, Chunk(wtask[w], "nosnap", snapUrls[wtask[w]],
                                      <<>>, <<>>))
    /\ ToRecv(w)
    /\ UNCHANGED notSnap
    /\ UNCHANGED <<taken, configWorkers, wlast, ctxDone, late>>
    /\ UNCHANGED <<snapUrls, snappc, spawned, sent, urlChan, chanClosed,
                   summaryTable, smu, swg, reqCount, outcome>>

----------------------------------------------------------------------------
(* fetchURLsConcurrently (network.go:52-108)                               *)

\* bufio.ScanLines: the text up to each newline without a trailing carriage
\* return; a last line without newline is a token, an empty rest is not
RECURSIVE ScanFrom(_, _, _)
ScanFrom(s, i, cur) ==
    LET DropCR(t) == IF t # <<>> /\ t[Len(t)] = "\r"
                     THEN SubSeq(t, 1, Len(t) - 1) ELSE t
    IN  IF i > Len(s) THEN (IF cur = <<>> THEN <<>> ELSE <<DropCR(cur)>>)
        ELSE IF s[i] = NL THEN <<DropCR(cur)>> \o ScanFrom(s, i + 1, <<>>)
        ELSE ScanFrom(s, i + 1, Append(cur, s[i]))

ScanLines(body) == ScanFrom(body, 1, <<>>)

NonEmpty(ls) == SelectSeq(ls, LAMBDA l : l # <<>>)

\* concatenation of the slots of results, in slot order
RECURSIVE Concat(_, _)
Concat(rs, i) ==
    IF i > Len(rs) THEN <<>> ELSE rs[i] \o Concat(rs, i + 1)

\* bodies of the index response
FetchBodyPool ==
    { <<>>,
      <<"a", ".", "p", NL>>,
      <<"a", ".", "p", NL, NL, "b", ".", "q">>,
      <<"a", ".", "p", NL, "b", ".", "q", NL, "c", ".", "p", NL>>,
      <<"E", "r", "r", NL>> }

\* responses of http.Get: a transport error, or a status and a body
FetchResponses ==
    { Resp(TRUE, 0, FALSE, <<>>) }
    \cup { Resp(FALSE, c, re, b) :
             c \in {200, 404, 500}, re \in BOOLEAN, b \in FetchBodyPool }

\* chunk goroutines are numbered like their result slots, from 0
Chunks == 0..(numWorkers - 1)

InitFetchVars ==
    /\ fpc = "get"
    /\ numWorkers \in 1..MaxFetchWorkers
    /\ fresp = NoResp
    /\ flines = <<>>
    /\ fnext = 0
    /\ fresults = [i \in 1..numWorkers |-> <<>>]
    /\ fwg = 0
    /\ cpc = [i \in 0..(numWorkers - 1) |-> "unspawned"]
    /\ clocal = [i \in 0..(numWorkers - 1) |-> <<>>]
    /\ fret = <<>>
    /\ ferr = "none"

FetchIdle ==
    /\ fpc = "off"
    /\ numWorkers = 1
    /\ fresp = NoResp
    /\ flines = <<>>
    /\ fnext = 0
    /\ fresults = <<>>
    /\ fwg = 0
    /\ cpc = <<>>
    /\ clocal = <<>>
    /\ fret = <<>>
    /\ ferr = "none"

\* network.go:53-57: http.Get; an error is returned to the caller
FetchGet(r) ==
    /\ fpc = "get"
    /\ r \in FetchResponses
    /\ fresp' = r
    /\ IF r.err
       THEN fpc' = "returned" /\ ferr' = "transport"
       ELSE fpc' = "scan" /\ ferr' = ferr
    /\ UNCHANGED notFetch
    /\ UNCHANGED <<numWorkers, flines, fnext, fresults, fwg, cpc, clocal,
                   fret>>

\* network.go:60-70: the scanner loop keeps the non-empty lines; a read
\* error of the body ends the function with scanner.Err()
FetchScan ==
    /\ fpc = "scan"
    /\ IF fresp.readerr
       THEN /\ fpc' = "returned"
            /\ ferr' = "scanner"
            /\ UNCHANGED flines
       ELSE /\ fpc' = "spawn"
            /\ flines' = NonEmpty(ScanLines(fresp.body))
            /\ UNCHANGED ferr
    /\ UNCHANGED notFetch
    /\ UNCHANGED <<numWorkers, fresp, fnext, fresults, fwg, cpc, clocal,
                   fret>>

\* a chunk size that is rounded down
ChunkSizeRoundedDown == Len(flines) \div numWorkers

\* network.go:73: chunkSize := (len(lines) + numWorkers - 1) / numWorkers
ChunkSize == (Len(flines) + numWorkers - 1) \div numWorkers

ChunkStart(i) == i * ChunkSize

ChunkEnd(i) ==
    IF ChunkStart(i) + ChunkSize > Len(flines)
    THEN Len(flines) ELSE ChunkStart(i) + ChunkSize

\* network.go:77-97: one iteration of the chunk loop: wg.Add(1) and a
\* goroutine for lines[start:end]
FetchSpawn ==
    /\ fpc = "spawn"
    /\ fnext < numWorkers
    /\ ChunkStart(fnext) < ChunkEnd(fnext)
    /\ fwg' = fwg + 1
    /\ cpc' = [cpc EXCEPT ![fnext] = "filter"]
    /\ fnext' = fnext + 1
    /\ UNCHANGED notFetch
    /\ UNCHANGED <<fpc, numWorkers, fresp, flines, fresults, clocal, fret,
                   ferr>>

\* network.go:77, 83-85: the loop ends at i = numWorkers or at the break
FetchSpawnEnd ==
    /\ fpc = "spawn"
    /\ fnext = numWorkers \/ ChunkStart(fnext) >= ChunkEnd(fnext)
    /\ fpc' = "wait"
    /\ UNCHANGED notFetch
    /\ UNCHANGED <<numWorkers, fresp, flines, fnext, fresults, fwg, cpc,
                   clocal, fret, ferr>>

\* network.go:90-95: the goroutine collects the non-empty lines of its chunk
ChunkFilter(i) ==
    /\ cpc[i] = "filter"
    /\ clocal' = [clocal EXCEPT ![i] =
                    NonEmpty(SubSeq(flines, ChunkStart(i) + 1, ChunkEnd(i)))]
    /\ cpc' = [cpc EXCEPT ![i] = "store"]
    /\ UNCHANGED notFetch
    /\ UNCHANGED <<fpc, numWorkers, fresp, flines, fnext, fresults, fwg, fret,
                   ferr>>

\* network.go:96 and the deferred wg.Done(): results[i] = localURLs
ChunkStore(i) ==
    /\ cpc[i] = "store"
    /\ fresults' = [fresults EXCEPT ![i + 1] = clocal[i]]
    /\ fwg' = fwg - 1
    /\ cpc' = [cpc EXCEPT ![i] = "done"]
    /\ UNCHANGED notFetch
    /\ UNCHANGED <<fpc, numWorkers, fresp, flines, fnext, clocal, fret, ferr>>

\* network.go:100-107: wg.Wait(), then the slots are appended in order
FetchCombine ==
    /\ fpc = "wait"
    /\ WaitReturns(fwg)
    /\ fret' = Concat(fresults, 1)
    /\ ferr' = "nil"
    /\ fpc' = "returned"
    /\ UNCHANGED notFetch
    /\ UNCHANGED <<numWorkers, fresp, flines, fnext, fresults, fwg, cpc,
                   clocal>>

----------------------------------------------------------------------------
(* filterURLs (processor.go:16-30): the expression built from the          *)
(* configured extensions: a literal dot, one of the tokens, an optional    *)
(* group of '?' and any characters, end of text.  A token is put into the  *)
(* expression as it is configured: a letter or a digit matches itself, a   *)
(* backslash and a dot match a dot, a dot alone matches any character     *)
(* but a newline.                                                          *)

BSL == "\\"

\* the token read from its k-th character on matches s from position i on
RECURSIVE TokenFrom(_, _, _, _)
TokenFrom(tok, k, s, i) ==
    IF k > Len(tok) THEN TRUE
    ELSE IF tok[k] = BSL /\ k < Len(tok)
    THEN /\ i <= Len(s)
         /\ s[i] = tok[k + 1]
         /\ TokenFrom(tok, k + 2, s, i + 1)
    ELSE /\ i <= Len(s)
         /\ IF tok[k] = "." THEN s[i] # NL ELSE s[i] = tok[k]
         /\ TokenFrom(tok, k + 1, s, i + 1)

\* number of characters a match of the token takes
TokenWidth(tok) ==
    Len(tok) - Cardinality({k \in 1..Len(tok) : tok[k] = BSL})

\* token tok stands at position i of s
TokenAt(tok, s, i) == TokenFrom(tok, 1, s, i)

\* the expression matches with its '.' at position i
FilterMatchAt(s, i, exts) ==
    /\ s[i] = "."
    /\ \E n \in 1..Len(exts) :
          /\ TokenAt(exts[n], s, i + 1)
          /\ QueryTailAt(s, i + TokenWidth(exts[n]))

\* a match of the token anywhere in the line, not tied to its end
FilterKeepsUnanchored(line, exts) ==
    /\ line # <<>>
    /\ \E i \in 1..Len(line) :
          /\ line[i] = "."
          /\ \E n \in 1..Len(exts) : TokenAt(exts[n], line, i + 1)

\* processor.go:24: line != "" && re.MatchString(line)
FilterKeeps(line, exts) ==
    /\ line # <<>>
    /\ \E i \in 1..Len(line) : FilterMatchAt(line, i, exts)

\* a loop that takes the first line for a header and starts at the second
FilterURLsSkipFirst(d, exts) ==
    SelectSeq(Tail(Split(d, NL)), LAMBDA line : FilterKeeps(line, exts))

\* processor.go:16-30: the lines of data the expression keeps, in order
FilterURLs(d, exts) ==
    SelectSeq(Split(d, NL), LAMBDA line : FilterKeeps(line, exts))

\* lines of the index answer
FilterLinePool ==
    { <<>>,
      <<"a", ".", "p">>,
      <<"a", ".", "p", "?", "x">>,
      <<"a", ".", "p", "q">>,
      <<"a", ".", "q">>,
      <<"a", ".", "q", "?", "x", ".", "p">>,
      <<"a", ".", "t", ".", "z">>,
      <<"a", ".", "t", "x", "z">> }

\* extension lists of config.json: tokens of letters, a token with an
\* escaped dot, a token with a bare dot
ExtensionLists ==
    { << <<"p">> >>,
      << <<"p">>, <<"q">> >>,
      << <<"t", BSL, ".", "z">>, <<"q">> >>,
      << <<"t", ".", "z">> >> }

FilterInputs ==
    { Join(ls, <<NL>>) : ls \in SeqsUpTo(FilterLinePool, MaxFilterLines) }

InitFilterVars ==
    /\ filterpc = "start"
    /\ data \in FilterInputs
    /\ extensions \in ExtensionLists
    /\ filterOut = <<>>
    /\ filterAgain = <<>>
    /\ filterGroups = EmptyMap

\* filterURLs is not running
FilterIdle ==
    /\ filterpc = "idle"
    /\ data = <<>>
    /\ extensions = <<>>
    /\ filterOut = <<>>
    /\ filterAgain = <<>>
    /\ filterGroups = EmptyMap

\* processor.go:16-30: one call of filterURLs
FilterApply ==
    /\ filterpc = "start"
    /\ filterOut' = FilterURLs(data, extensions)
    /\ filterpc' = "applied"
    /\ UNCHANGED <<data, extensions, filterAgain, filterGroups>>
    /\ UNCHANGED notFilter

\* processor.go:16-30: a second call, on the joined result of the first
FilterReapply ==
    /\ filterpc = "applied"
    /\ filterAgain' = FilterURLs(Join(filterOut, <<NL>>), extensions)
    /\ filterpc' = "reapplied"
    /\ UNCHANGED <<data, extensions, filterOut, filterGroups>>
    /\ UNCHANGED notFilter

\* main.go:81, 96 and processor.go:35-43: the filtered URLs go to
\* saveResultsByExtension, whose first loop groups them by extension
FilterGroup ==
    /\ filterpc = "applied"
    /\ filterGroups' = GroupByExt(filterOut, 1, EmptyMap)
    /\ filterpc' = "grouped"
    /\ UNCHANGED <<data, extensions, filterOut, filterAgain>>
    /\ UNCHANGED notFilter

----------------------------------------------------------------------------
(* loadConfig (config.go:25-51)                                            *)

\* numWorkers values of config.json: negative, absent (0), positive
ConfiguredPool == (0 - 2)..MaxConfigured

\* a loader that applies the default and no upper limit
EffectiveWorkersNoClamp(n, cpus) ==
    IF n <= 0 THEN DefaultNumWorkers ELSE n

\* config.go:43-48: the default, then the upper limit of twice the CPUs
EffectiveWorkers(n, cpus) ==
    LET defaulted == IF n <= 0 THEN DefaultNumWorkers ELSE n
    IN  IF defaulted > cpus * 2 THEN cpus * 2 ELSE defaulted

InitLoadVars ==
    /\ loadpc = "load"
    /\ configFile \in {"unreadable", "invalid", "noext", "ok"}
    /\ fileNumWorkers \in ConfiguredPool
    /\ numCPU \in 1..MaxCPU
    /\ loadedWorkers = 0

\* loadConfig is not running
LoadIdle ==
    /\ loadpc = "off"
    /\ configFile = "ok"
    /\ fileNumWorkers = 0
    /\ numCPU = 1
    /\ loadedWorkers = 0

\* config.go:25-51: os.Exit(1) on a file that cannot be read or parsed or
\* that names no extension; otherwise the Config with its NumWorkers
LoadConfig ==
    /\ loadpc = "load"
    /\ IF configFile = "ok"
       THEN /\ loadedWorkers' = EffectiveWorkers(fileNumWorkers, numCPU)
            /\ loadpc' = "returned"
       ELSE /\ loadedWorkers' = loadedWorkers
            /\ loadpc' = "exited"
    /\ UNCHANGED <<configFile, fileNumWorkers, numCPU>>
    /\ UNCHANGED notLoad

----------------------------------------------------------------------------
(* runGhostHunter (main.go:41-101) and the fetcher goroutine it starts     *)

\* config.Extensions
Extensions == << <<"p">>, <<"r">> >>

\* lines the index answers with
RunLinePool == { <<"a", ".", "p">>,
                 <<"c", ".", "r", "?", "x">>,
                 <<"a", ".", "z">> }

\* capacity of the URL channel
RunChanCap == 1

InitRunVars ==
    /\ runpc = "internet"
    /\ runErr = "none"
    /\ dirCreated = FALSE
    /\ fetcherpc = "off"
    /\ toSend \in SeqsUpTo(RunLinePool, MaxRunLines)
    /\ urlsChan = <<>>
    /\ urlsClosed = FALSE
    /\ errChan = <<>>
    /\ fetchFailed = FALSE
    /\ filteredURLs = <<>>
    /\ probes = <<>>

RunIdle ==
    /\ runpc = "off"
    /\ runErr = "none"
    /\ dirCreated = FALSE
    /\ fetcherpc = "off"
    /\ toSend = <<>>
    /\ urlsChan = <<>>
    /\ urlsClosed = FALSE
    /\ errChan = <<>>
    /\ fetchFailed = FALSE
    /\ filteredURLs = <<>>
    /\ probes = <<>>

\* main.go:42-45: checkInternetConnection()
RunCheckInternet(ok) ==
    /\ runpc = "internet"
    /\ IF ok
       THEN runpc' = "wayback" /\ runErr' = runErr
       ELSE runpc' = "returned" /\ runErr' = "no internet or slow connection"
    /\ UNCHANGED notRun
    /\ probes' = Append(probes, [name |-> "internet", ok |-> ok])
    /\ UNCHANGED saveVars
    /\ UNCHANGED <<dirCreated, fetcherpc, toSend, urlsChan, urlsClosed,
                   errChan, fetchFailed, filteredURLs>>

\* a probe whose failure is reported on the terminal only
RunCheckWaybackNotFatal(ok) ==
    /\ runpc = "wayback"
    /\ runpc' = "domain"
    /\ runErr' = runErr
    /\ probes' = Append(probes, [name |-> "wayback", ok |-> ok])
    /\ UNCHANGED notRun
    /\ UNCHANGED saveVars
    /\ UNCHANGED <<dirCreated, fetcherpc, toSend, urlsChan, urlsClosed,
                   errChan, fetchFailed, filteredURLs>>

\* main.go:47-50: checkWaybackMachine()
RunCheckWayback(ok) ==
    /\ runpc = "wayback"
    /\ IF ok
       THEN runpc' = "domain" /\ runErr' = runErr
       ELSE runpc' = "returned" /\ runErr' = "Wayback Machine is currently DOWN"
    /\ UNCHANGED notRun
    /\ probes' = Append(probes, [name |-> "wayback", ok |-> ok])
    /\ UNCHANGED saveVars
    /\ UNCHANGED <<dirCreated, fetcherpc, toSend, urlsChan, urlsClosed,
                   errChan, fetchFailed, filteredURLs>>

\* main.go:52-55: checkDomainAvailability(domain)
RunCheckDomain(ok) ==
    /\ runpc = "domain"
    /\ IF ok
       THEN runpc' = "mkdir" /\ runErr' = runErr
       ELSE runpc' = "returned" /\ runErr' = "domain is not reachable"
    /\ UNCHANGED notRun
    /\ probes' = Append(probes, [name |-> "domain", ok |-> ok])
    /\ UNCHANGED saveVars
    /\ UNCHANGED <<dirCreated, fetcherpc, toSend, urlsChan, urlsClosed,
                   errChan, fetchFailed, filteredURLs>>

\* main.go:57-61: os.MkdirAll(outputDir, 0755)
RunMkdirAll(ok) ==
    /\ runpc = "mkdir"
    /\ dirCreated' = ok
    /\ IF ok
       THEN runpc' = "fetch" /\ runErr' = runErr
       ELSE runpc' = "returned" /\ runErr' = "failed to create directory"
    /\ UNCHANGED notRun
    /\ UNCHANGED probes
    /\ UNCHANGED saveVars
    /\ UNCHANGED <<fetcherpc, toSend, urlsChan, urlsClosed, errChan,
                   fetchFailed, filteredURLs>>

\* main.go:74: fetchURLsConcurrently returns the two channels at once and
\* the fetcher goroutine runs on its own
RunFetchStart ==
    /\ runpc = "fetch"
    /\ runpc' = "filter"
    /\ fetcherpc' = "run"
    /\ UNCHANGED notRun
    /\ UNCHANGED probes
    /\ UNCHANGED saveVars
    /\ UNCHANGED <<runErr, dirCreated, toSend, urlsChan, urlsClosed, errChan,
                   fetchFailed, filteredURLs>>

\* the fetcher delivers the next line of the response
FetcherSend ==
    /\ fetcherpc = "run"
    /\ toSend # <<>>
    /\ Len(urlsChan) < RunChanCap
    /\ urlsChan' = Append(urlsChan, Head(toSend))
    /\ toSend' = Tail(toSend)
    /\ UNCHANGED notRun
    /\ UNCHANGED probes
    /\ UNCHANGED saveVars
    /\ UNCHANGED <<runpc, runErr, dirCreated, fetcherpc, urlsClosed, errChan,
                   fetchFailed, filteredURLs>>

\* the response is exhausted: the fetcher closes the URL channel
FetcherFinish ==
    /\ fetcherpc = "run"
    /\ toSend = <<>>
    /\ urlsClosed' = TRUE
    /\ fetcherpc' = "done"
    /\ UNCHANGED notRun
    /\ UNCHANGED probes
    /\ UNCHANGED saveVars
    /\ UNCHANGED <<runpc, runErr, dirCreated, toSend, urlsChan, errChan,
                   fetchFailed, filteredURLs>>

\* the index query fails: transport error, non-2xx status, or a read error
\* in the middle of the body
FetcherFail ==
    /\ fetcherpc = "run"
    /\ fetcherpc' = "failed"
    /\ fetchFailed' = TRUE
    /\ UNCHANGED notRun
    /\ UNCHANGED probes
    /\ UNCHANGED saveVars
    /\ UNCHANGED <<runpc, runErr, dirCreated, toSend, urlsChan, urlsClosed,
                   errChan, filteredURLs>>

\* the failed fetcher sends the error on errChan (buffered)
FetcherSendErr ==
    /\ fetcherpc = "failed"
    /\ errChan = <<>>
    /\ errChan' = <<"FetchError">>
    /\ fetcherpc' = IF urlsClosed THEN "done" ELSE "failed"
    /\ UNCHANGED notRun
    /\ UNCHANGED probes
    /\ UNCHANGED saveVars
    /\ UNCHANGED <<runpc, runErr, dirCreated, toSend, urlsChan, urlsClosed,
                   fetchFailed, filteredURLs>>

\* the failed fetcher closes the URL channel; nothing orders this with the
\* send of the error
FetcherClose ==
    /\ fetcherpc = "failed"
    /\ ~urlsClosed
    /\ urlsClosed' = TRUE
    /\ fetcherpc' = IF errChan # <<>> THEN "done" ELSE "failed"
    /\ UNCHANGED notRun
    /\ UNCHANGED probes
    /\ UNCHANGED saveVars
    /\ UNCHANGED <<runpc, runErr, dirCreated, toSend, urlsChan, errChan,
                   fetchFailed, filteredURLs>>

\* main.go:76-81: filterURLs consumes the channel: one received line
RunFilterRecv ==
    /\ runpc = "filter"
    /\ urlsChan # <<>>
    /\ urlsChan' = Tail(urlsChan)
    /\ filteredURLs' = IF FilterKeeps(Head(urlsChan), Extensions)
                       THEN Append(filteredURLs, Head(urlsChan))
                       ELSE filteredURLs
    /\ UNCHANGED notRun
    /\ UNCHANGED probes
    /\ UNCHANGED saveVars
    /\ UNCHANGED <<runpc, runErr, dirCreated, fetcherpc, toSend, urlsClosed,
                   errChan, fetchFailed>>

\* main.go:81: filterURLs returns when the channel is closed and drained
RunFilterEnd ==
    /\ runpc = "filter"
    /\ urlsChan = <<>>
    /\ urlsClosed
    /\ runpc' = "select"
    /\ UNCHANGED notRun
    /\ UNCHANGED probes
    /\ UNCHANGED saveVars
    /\ UNCHANGED <<runErr, dirCreated, fetcherpc, toSend, urlsChan, urlsClosed,
                   errChan, fetchFailed, filteredURLs>>

\* main.go:84-91: select with a default case: an error is seen only if it
\* is in errChan at this moment
RunSelect ==
    /\ runpc = "select"
    /\ IF errChan # <<>>
       THEN /\ errChan' = Tail(errChan)
            /\ runpc' = "returned"
            /\ runErr' = "error fetching URLs"
       ELSE /\ runpc' = "save"
            /\ UNCHANGED <<errChan, runErr>>
    /\ UNCHANGED notRun
    /\ UNCHANGED probes
    /\ UNCHANGED saveVars
    /\ UNCHANGED <<dirCreated, fetcherpc, toSend, urlsChan, urlsClosed,
                   fetchFailed, filteredURLs>>

\* main.go:96: the call saveResultsByExtension(filteredURLs, domain,
\* outputDir)
RunSave ==
    /\ runpc = "save"
    /\ savepc = "off"
    /\ urls' = filteredURLs
    /\ savepc' = "group"
    /\ runpc' = "saving"
    /\ UNCHANGED notRun
    /\ UNCHANGED probes
    /\ UNCHANGED <<extensionMap, table, totalURLs, mu, wg, gpc, gtmp, gerr,
                   files, writeAttempts>>
    /\ UNCHANGED <<runErr, dirCreated, fetcherpc, toSend, urlsChan, urlsClosed,
                   errChan, fetchFailed, filteredURLs>>

\* main.go:98-100: saveResultsByExtension has returned; return nil
RunReturn ==
    /\ runpc = "saving"
    /\ savepc = "done"
    /\ runpc' = "returned"
    /\ runErr' = "nil"
    /\ UNCHANGED notRun
    /\ UNCHANGED probes
    /\ UNCHANGED saveVars
    /\ UNCHANGED <<dirCreated, fetcherpc, toSend, urlsChan, urlsClosed,
                   errChan, fetchFailed, filteredURLs>>

----------------------------------------------------------------------------
(* searchSnapshots (scanner.go:857): the URL list it hands to              *)
(* fetchSnapshots                                                          *)

\* scanner.go:882-894: for each selected extension, os.ReadFile of
\* <domain>.<ext>.txt in the directory fs; a file that cannot be read is
\* skipped, the others are split on "\n" and appended
RECURSIVE ReadSavedURLs(_, _, _)
ReadSavedURLs(fs, domain, exts) ==
    IF exts = <<>> THEN <<>>
    ELSE LET fn == FileName(domain, Head(exts))
             got == IF fn \in DOMAIN fs THEN Split(fs[fn], NL) ELSE <<>>
         IN  got \o ReadSavedURLs(fs, domain, Tail(exts))


MaxPasses == 3
MaxChoices == 2
MaxAnswered == 1

\* the characters of file names in byte order
AsciiOrder ==
    <<".", "0", "1", "2", "3", "4", "5", "6", "7", "8", "9", ":", "?",
      "A", "B", "C", "D", "E", "F", "G", "H", "I", "J", "K", "L", "M",
      "N", "O", "P", "Q", "R", "S", "T", "U", "V", "W", "X", "Y", "Z",
      "a", "b", "c", "d", "e", "f", "g", "h", "i", "j", "k", "l", "m",
      "n", "o", "p", "q", "r", "s", "t", "u", "v", "w", "x", "y", "z">>

CharRank(c) == CHOOSE i \in 1..Len(AsciiOrder) : AsciiOrder[i] = c

\* a < b for Go strings
RECURSIVE StrLess(_, _)
StrLess(a, b) ==
    IF a = <<>> THEN b # <<>>
    ELSE IF b = <<>> THEN FALSE
    ELSE IF a[1] = b[1] THEN StrLess(Tail(a), Tail(b))
    ELSE CharRank(a[1]) < CharRank(b[1])

\* os.ReadDir: the entries of a directory, sorted by file name
RECURSIVE SortedNames(_)
SortedNames(S) ==
    IF S = {} THEN <<>>
    ELSE LET m == CHOOSE x \in S : \A y \in S \ {x} : StrLess(x, y)
         IN  <<m>> \o SortedNames(S \ {m})

\* strings.HasSuffix(s, suf)
HasSuffix(s, suf) ==
    /\ Len(s) >= Len(suf)
    /\ SubSeq(s, Len(s) - Len(suf) + 1, Len(s)) = suf

\* scanner.go:641-650: of every entry whose name ends with ".txt" and has
\* at least three dot-separated parts, the part before the last
RECURSIVE ExtensionsOf(_)
ExtensionsOf(names) ==
    IF names = <<>> THEN <<>>
    ELSE LET parts == Split(Head(names), ".")
             rest == ExtensionsOf(Tail(names))
         IN  IF HasSuffix(Head(names), <<".", "t", "x", "t">>)
                /\ Len(parts) >= 3
             THEN <<parts[Len(parts) - 1]>> \o rest
             ELSE rest

\* scanner.go:633-657: listAvailableExtensions over the directory dir (the
\* empty result stands for its error return)
ListAvailableExtensions(dir) == ExtensionsOf(SortedNames(DOMAIN dir))

\* scanner.go:725: domain+".snapshots.txt"
SnapshotsFile(domain) ==
    domain \o
    <<".", "s", "n", "a", "p", "s", "h", "o", "t", "s", ".", "t", "x",
      "t">>

\* scanner.go:823: fmt.Fprintf(file, "No snapshots found for URL: %s\n\n", url)
NoSnapshotsEntry(url) ==
    <<"N", "o", " ", "s", "n", "a", "p", "s", "h", "o", "t", "s", " ",
      "f", "o", "u", "n", "d", " ", "f", "o", "r", " ", "U", "R", "L",
      ":", " ">>
    \o url \o <<NL, NL>>

\* filtered URL lists a first pass aggregates
SessInputs == SeqsUpTo({<<"a", ".", "p">>, <<"b", ".", "p">>,
                        <<"a", ".", "q">>}, 2)

\* the sequences of at most n distinct elements of S
RECURSIVE OrderedSubsets(_, _)
OrderedSubsets(S, n) ==
    IF n = 0 THEN {<<>>}
    ELSE {<<>>} \cup
         UNION {{<<x>> \o t : t \in OrderedSubsets(S \ {x}, n - 1)} : x \in S}

\* the entries of the report for the URLs us[order[1]], us[order[2]], ...
RECURSIVE ReportOf(_, _)
ReportOf(us, order) ==
    IF order = <<>> THEN <<>>
    ELSE NoSnapshotsEntry(us[Head(order)]) \o ReportOf(us, Tail(order))

InitSessVars ==
    /\ sesspc = "idle"
    /\ resultsDir = EmptyMap
    /\ savedExts = {}
    /\ available = <<>>
    /\ selectedExtensions = <<>>
    /\ sessUrls = <<>>
    /\ passes = 0

\* no session is running
SessIdle ==
    /\ sesspc = "off"
    /\ resultsDir = EmptyMap
    /\ savedExts = {}
    /\ available = <<>>
    /\ selectedExtensions = <<>>
    /\ sessUrls = <<>>
    /\ passes = 0

\* main.go:29 and processor.go:33-95: a first pass on the domain; every
\* group of us whose os.WriteFile succeeds leaves <domain>.<ext>.txt with
\* the joined URLs of the group
SessFirstPass(us, failing) ==
    /\ sesspc = "idle"
    /\ passes < MaxPasses
    /\ LET m == GroupByExt(us, 1, EmptyMap)
           written == DOMAIN m \ failing
           names == {FileName(Domain, e) : e \in written}
       IN  /\ failing \subseteq DOMAIN m
           /\ resultsDir' =
                [f \in DOMAIN resultsDir \cup names |->
                    IF f \in names
                    THEN Join(m[CHOOSE e \in written :
                                    f = FileName(Domain, e)], <<NL>>)
                    ELSE resultsDir[f]]
           /\ savedExts' = savedExts \cup written
    /\ passes' = passes + 1
    /\ UNCHANGED <<sesspc, available, selectedExtensions, sessUrls>>
    /\ UNCHANGED notSess

\* scanner.go:857-876 and 682-686: the user asks for a snapshot search and
\* selectExtensions lists the extensions of the domain; with none it
\* returns an error and searchSnapshots returns
SessList ==
    /\ sesspc = "idle"
    /\ passes < MaxPasses
    /\ available' = ListAvailableExtensions(resultsDir)
    /\ sesspc' = IF available' = <<>> THEN "idle" ELSE "select"
    /\ UNCHANGED <<resultsDir, savedExts, selectedExtensions, sessUrls,
                   passes>>
    /\ UNCHANGED notSess

\* scanner.go:693-710: the numbers the user enters; one number outside
\* 1..len(extensions) is an invalid selection and ends the search
SessSelect(choices) ==
    /\ sesspc = "select"
    /\ IF \A i \in 1..Len(choices) : choices[i] \in 1..Len(available)
       THEN /\ selectedExtensions' =
                  [i \in 1..Len(choices) |-> available[choices[i]]]
            /\ sesspc' = "read"
       ELSE /\ selectedExtensions' = <<>>
            /\ sesspc' = "idle"
    /\ UNCHANGED <<resultsDir, savedExts, available, sessUrls, passes>>
    /\ UNCHANGED notSess

\* scanner.go:882-894
SessRead ==
    /\ sesspc = "read"
    /\ sessUrls' = ReadSavedURLs(resultsDir, Domain, selectedExtensions)
    /\ sesspc' = "fetch"
    /\ UNCHANGED <<resultsDir, savedExts, available, selectedExtensions,
                   passes>>
    /\ UNCHANGED notSess

\* scanner.go:900 and 714-854: fetchSnapshots creates (or truncates)
\* <domain>.snapshots.txt unless os.Create fails; the workers write the
\* entries of the URLs that were answered, in the order they come to them
\* (here at most MaxAnswered URLs are answered, each without snapshots)
SessFetch(ok, order) ==
    /\ sesspc = "fetch"
    /\ resultsDir' =
          IF ok
          THEN [f \in DOMAIN resultsDir \cup {SnapshotsFile(Domain)} |->
                   IF f = SnapshotsFile(Domain)
                   THEN ReportOf(sessUrls, order)
                   ELSE resultsDir[f]]
          ELSE resultsDir
    /\ passes' = passes + 1
    /\ sesspc' = "idle"
    /\ UNCHANGED <<savedExts, available, selectedExtensions, sessUrls>>
    /\ UNCHANGED notSess

----------------------------------------------------------------------------
(* fetchURLsConcurrently, the variant of scanner.go:116-160: workers that  *)
(* collect from a channel the lines the caller sends                       *)

MaxChanWorkers == 2

ChanWorkers == 1..MaxChanWorkers

\* bodies the index answers with
ChanBodyPool == { <<>>,
                  <<"a">>,
                  <<"a", NL, "b">>,
                  <<"a", NL, NL, "b", NL>>,
                  <<"a", NL, "a", NL, "b">> }

\* http.Get fails, io.ReadAll fails, or the body is read
ChanResponses ==
    {[err |-> "get", body |-> <<>>], [err |-> "read", body |-> <<>>]}
        \cup {[err |-> "nil", body |-> b] : b \in ChanBodyPool}

InitChanVars ==
    /\ cfpc = "spawn"
    /\ cfNumWorkers \in ChanWorkers
    /\ cfSpawned = 0
    /\ cfResp \in ChanResponses
    /\ cfLines = <<>>
    /\ cfNext = 1
    /\ cfChan = <<>>
    /\ cfClosed = FALSE
    /\ cfUrls = <<>>
    /\ cfMu = NoHolder
    /\ cfWg = 0
    /\ cwpc = [w \in ChanWorkers |-> "unborn"]
    /\ cwurl = [w \in ChanWorkers |-> <<>>]
    /\ cfRet = <<>>
    /\ cfErr = "none"

\* this fetchURLsConcurrently is not running
ChanIdle ==
    /\ cfpc = "off"
    /\ cfNumWorkers = 1
    /\ cfSpawned = 0
    /\ cfResp = [err |-> "nil", body |-> <<>>]
    /\ cfLines = <<>>
    /\ cfNext = 1
    /\ cfChan = <<>>
    /\ cfClosed = FALSE
    /\ cfUrls = <<>>
    /\ cfMu = NoHolder
    /\ cfWg = 0
    /\ cwpc = [w \in ChanWorkers |-> "unborn"]
    /\ cwurl = [w \in ChanWorkers |-> <<>>]
    /\ cfRet = <<>>
    /\ cfErr = "none"

\* scanner.go:132-135: wg.Add(1); go worker()
CfSpawn ==
    /\ cfpc = "spawn"
    /\ cfSpawned < cfNumWorkers
    /\ cfSpawned' = cfSpawned + 1
    /\ cfWg' = cfWg + 1
    /\ cwpc' = [cwpc EXCEPT ![cfSpawned + 1] = "recv"]
    /\ UNCHANGED <<cfpc, cfNumWorkers, cfResp, cfLines, cfNext, cfChan,
                   cfClosed, cfUrls, cfMu, cwurl, cfRet, cfErr>>
    /\ UNCHANGED notChan

\* scanner.go:132: the loop ends once numWorkers workers run
CfSpawnEnd ==
    /\ cfpc = "spawn"
    /\ cfSpawned = cfNumWorkers
    /\ cfpc' = "get"
    /\ UNCHANGED <<cfNumWorkers, cfSpawned, cfResp, cfLines, cfNext, cfChan,
                   cfClosed, cfUrls, cfMu, cfWg, cwpc, cwurl, cfRet, cfErr>>
    /\ UNCHANGED notChan

\* scanner.go:137-141: http.Get; on an error return nil, err
CfGet ==
    /\ cfpc = "get"
    /\ IF cfResp.err = "get"
       THEN cfpc' = "returned" /\ cfErr' = "err"
       ELSE cfpc' = "read" /\ cfErr' = cfErr
    /\ UNCHANGED <<cfNumWorkers, cfSpawned, cfResp, cfLines, cfNext, cfChan,
                   cfClosed, cfUrls, cfMu, cfWg, cwpc, cwurl, cfRet>>
    /\ UNCHANGED notChan

\* scanner.go:144-150: io.ReadAll; on an error return nil, err; otherwise
\* the body is split on "\n"
CfReadAll ==
    /\ cfpc = "read"
    /\ IF cfResp.err = "read"
       THEN cfpc' = "returned" /\ cfErr' = "err" /\ cfLines' = cfLines
       ELSE /\ cfpc' = "send"
            /\ cfErr' = cfErr
            /\ cfLines' = Split(cfResp.body, NL)
    /\ UNCHANGED <<cfNumWorkers, cfSpawned, cfResp, cfNext, cfChan,
                   cfClosed, cfUrls, cfMu, cfWg, cwpc, cwurl, cfRet>>
    /\ UNCHANGED notChan

\* scanner.go:150-154: an empty line is passed over
CfSkip ==
    /\ cfpc = "send"
    /\ cfNext <= Len(cfLines)
    /\ cfLines[cfNext] = <<>>
    /\ cfNext' = cfNext + 1
    /\ UNCHANGED <<cfpc, cfNumWorkers, cfSpawned, cfResp, cfLines, cfChan,
                   cfClosed, cfUrls, cfMu, cfWg, cwpc, cwurl, cfRet, cfErr>>
    /\ UNCHANGED notChan

\* scanner.go:152: urlChan <- line blocks while the buffer of numWorkers
\* lines is full
CfSend ==
    /\ cfpc = "send"
    /\ cfNext <= Len(cfLines)
    /\ cfLines[cfNext] # <<>>
    /\ Len(cfChan) < cfNumWorkers
    /\ cfChan' = Append(cfChan, cfLines[cfNext])
    /\ cfNext' = cfNext + 1
    /\ UNCHANGED <<cfpc, cfNumWorkers, cfSpawned, cfResp, cfLines,
                   cfClosed, cfUrls, cfMu, cfWg, cwpc, cwurl, cfRet, cfErr>>
    /\ UNCHANGED notChan

\* scanner.go:155: close(urlChan)
CfClose ==
    /\ cfpc = "send"
    /\ cfNext > Len(cfLines)
    /\ cfClosed' = TRUE
    /\ cfpc' = "wait"
    /\ UNCHANGED <<cfNumWorkers, cfSpawned, cfResp, cfLines, cfNext, cfChan,
                   cfUrls, cfMu, cfWg, cwpc, cwurl, cfRet, cfErr>>
    /\ UNCHANGED notChan

\* scanner.go:157-159: wg.Wait(); return urls, nil
CfWait ==
    /\ cfpc = "wait"
    /\ cfWg = 0
    /\ cfRet' = cfUrls
    /\ cfErr' = "nil"
    /\ cfpc' = "returned"
    /\ UNCHANGED <<cfNumWorkers, cfSpawned, cfResp, cfLines, cfNext, cfChan,
                   cfClosed, cfUrls, cfMu, cfWg, cwpc, cwurl>>
    /\ UNCHANGED notChan

\* scanner.go:125: the range receives a line
CwRecv(w) ==
    /\ cwpc[w] = "recv"
    /\ cfChan # <<>>
    /\ cwurl' = [cwurl EXCEPT ![w] = Head(cfChan)]
    /\ cfChan' = Tail(cfChan)
    /\ cwpc' = [cwpc EXCEPT ![w] = "lock"]
    /\ UNCHANGED <<cfpc, cfNumWorkers, cfSpawned, cfResp, cfLines, cfNext,
                   cfClosed, cfUrls, cfMu, cfWg, cfRet, cfErr>>
    /\ UNCHANGED notChan

\* scanner.go:124-125: the range ends on the closed, drained channel and
\* the deferred wg.Done() runs
CwExit(w) ==
    /\ cwpc[w] = "recv"
    /\ cfChan = <<>>
    /\ cfClosed
    /\ cwpc' = [cwpc EXCEPT ![w] = "exit"]
    /\ cfWg' = cfWg - 1
    /\ UNCHANGED <<cfpc, cfNumWorkers, cfSpawned, cfResp, cfLines, cfNext,
                   cfChan, cfClosed, cfUrls, cfMu, cwurl, cfRet, cfErr>>
    /\ UNCHANGED notChan

\* scanner.go:126: mu.Lock()
CwLock(w) ==
    /\ cwpc[w] = "lock"
    /\ cfMu = NoHolder
    /\ cfMu' = <<w>>
    /\ cwpc' = [cwpc EXCEPT ![w] = "append"]
    /\ UNCHANGED <<cfpc, cfNumWorkers, cfSpawned, cfResp, cfLines, cfNext,
                   cfChan, cfClosed, cfUrls, cfWg, cwurl, cfRet, cfErr>>
    /\ UNCHANGED notChan

\* scanner.go:127: urls = append(urls, url)
CwAppend(w) ==
    /\ cwpc[w] = "append"
    /\ cfUrls' = Append(cfUrls, cwurl[w])
    /\ cwpc' = [cwpc EXCEPT ![w] = "unlock"]
    /\ UNCHANGED <<cfpc, cfNumWorkers, cfSpawned, cfResp, cfLines, cfNext,
                   cfChan, cfClosed, cfMu, cfWg, cwurl, cfRet, cfErr>>
    /\ UNCHANGED notChan

\* scanner.go:128: mu.Unlock()
CwUnlock(w) ==
    /\ cwpc[w] = "unlock"
    /\ cfMu' = NoHolder
    /\ cwpc' = [cwpc EXCEPT ![w] = "recv"]
    /\ UNCHANGED <<cfpc, cfNumWorkers, cfSpawned, cfResp, cfLines, cfNext,
                   cfChan, cfClosed, cfUrls, cfWg, cwurl, cfRet, cfErr>>
    /\ UNCHANGED notChan

----------------------------------------------------------------------------
(* fetchSnapshots, the variant of scanner.go:362-409: one URL after the    *)
(* other, each answered with a JSON array of rows                          *)

MaxJsonURLs == 2

\* lines of a group file, as strings.Split leaves them
JsonURLPool == {<<>>, <<"a", ".", "p">>, <<"b", ".", "p">>}

HttpPrefix == <<"h", "t", "t", "p", ":", "/", "/">>
HttpsPrefix == <<"h", "t", "t", "p", "s", ":", "/", "/">>

\* strings.HasPrefix(s, pre)
HasPrefix(s, pre) == Len(s) >= Len(pre) /\ SubSeq(s, 1, Len(pre)) = pre

\* the header row of the JSON output
JsonHeader == << <<"t">>, <<"o">>, <<"s">> >>

\* the decoded [][]string of the answers for URL u: the empty array, the
\* header alone, a full data row, a short data row, a row with a scheme
JsonResults(u) ==
    { <<>>,
      <<JsonHeader>>,
      <<JsonHeader, <<TsValid, u, <<"k">>>> >>,
      <<JsonHeader, <<TsValid, u>> >>,
      <<JsonHeader, <<TsValid, HttpPrefix \o u, <<"k">>>>,
                    <<TsShort, u, <<"k">>>> >> }

\* client.Get fails, the body is no JSON array of arrays, or it decodes
JsonResponses(u) ==
    {[kind |-> "neterr", result |-> <<>>],
     [kind |-> "decodeerr", result |-> <<>>]}
        \cup {[kind |-> "ok", result |-> r] : r \in JsonResults(u)}

NoJsonResp == [kind |-> "none", result |-> <<>>]

\* scanner.go:387-401: the links of the rows that follow the header; only
\* called on a result that has a first row
RECURSIVE LinksOfRows(_)
LinksOfRows(rows) ==
    IF rows = <<>> THEN <<>>
    ELSE LET entry == Head(rows)
             rest == LinksOfRows(Tail(rows))
         IN  IF Len(entry) >= 3
             THEN LET originalURL ==
                        IF ~HasPrefix(entry[2], HttpPrefix)
                           /\ ~HasPrefix(entry[2], HttpsPrefix)
                        THEN HttpsPrefix \o entry[2]
                        ELSE entry[2]
                  IN  <<SnapshotURL(entry[1], originalURL)>> \o rest
             ELSE rest

JsonInputs ==
    {us \in SeqsUpTo(JsonURLPool, MaxJsonURLs) :
        \A i, j \in 1..Len(us) : (i # j /\ us[i] # <<>>) => us[i] # us[j]}

InitJsonVars ==
    /\ jspc = "loop"
    /\ jsUrls \in JsonInputs
    /\ jsIdx = 1
    /\ jsGot = [i \in 1..Len(jsUrls) |-> NoJsonResp]
    /\ jsSnapshots = EmptyMap
    /\ jsRet = EmptyMap
    /\ jsErr = "none"

\* this fetchSnapshots is not running
JsonIdle ==
    /\ jspc = "off"
    /\ jsUrls = <<>>
    /\ jsIdx = 1
    /\ jsGot = <<>>
    /\ jsSnapshots = EmptyMap
    /\ jsRet = EmptyMap
    /\ jsErr = "none"

\* scanner.go:366-369: an empty line is passed over
JsonSkipEmpty ==
    /\ jspc = "loop"
    /\ jsIdx <= Len(jsUrls)
    /\ jsUrls[jsIdx] = <<>>
    /\ jsIdx' = jsIdx + 1
    /\ UNCHANGED <<jspc, jsUrls, jsGot, jsSnapshots, jsRet, jsErr>>
    /\ UNCHANGED notJson

\* scanner.go:372-405: one URL is queried. A failed request or a failed
\* decode returns nil and the error; result[1:] of a result of length 0
\* panics (slice bounds out of range) and ends the process; otherwise the
\* links of the data rows, if any, are stored under the URL
JsonQuery(r) ==
    /\ jspc = "loop"
    /\ jsIdx <= Len(jsUrls)
    /\ jsUrls[jsIdx] # <<>>
    /\ r \in JsonResponses(jsUrls[jsIdx])
    /\ jsGot' = [jsGot EXCEPT ![jsIdx] = r]
    /\ IF r.kind # "ok"
       THEN /\ jspc' = "returned"
            /\ jsErr' = "err"
            /\ jsRet' = EmptyMap
            /\ UNCHANGED <<jsIdx, jsSnapshots>>
       ELSE IF Len(r.result) = 0
       THEN /\ jspc' = "panicked"
            /\ UNCHANGED <<jsIdx, jsSnapshots, jsRet, jsErr>>
       ELSE LET snapshotLinks == LinksOfRows(Tail(r.result))
                url == jsUrls[jsIdx]
            IN  /\ jsSnapshots' =
                      IF Len(snapshotLinks) > 0
                      THEN [u \in DOMAIN jsSnapshots \cup {url} |->
                               IF u = url THEN snapshotLinks
                               ELSE jsSnapshots[u]]
                      ELSE jsSnapshots
                /\ jsIdx' = jsIdx + 1
                /\ UNCHANGED <<jspc, jsRet, jsErr>>
    /\ UNCHANGED jsUrls
    /\ UNCHANGED notJson

\* scanner.go:408: return snapshots, nil
JsonReturn ==
    /\ jspc = "loop"
    /\ jsIdx > Len(jsUrls)
    /\ jsRet' = jsSnapshots
    /\ jsErr' = "nil"
    /\ jspc' = "returned"
    /\ UNCHANGED <<jsUrls, jsIdx, jsGot, jsSnapshots>>
    /\ UNCHANGED notJson

----------------------------------------------------------------------------
(* Specifications                                                          *)

InitSave == InitSaveVars /\ SnapIdle /\ FetchIdle /\ RunIdle /\ FilterIdle
    /\ LoadIdle /\ JsonIdle /\ ChanIdle /\ SessIdle

NextSave ==
    \/ SaveBuildMap
    \/ \E ext \in Groups : SaveSpawn(ext)
    \/ SaveSpawnEnd
    \/ \E ext \in Groups, ok \in BOOLEAN : GoWriteFile(ext, ok)
    \/ \E ext \in Groups : GoLockRow(ext)
    \/ \E ext \in Groups : GoAppendRow(ext)
    \/ \E ext \in Groups : GoUnlockRow(ext)
    \/ \E ext \in Groups : GoLockTotal(ext)
    \/ \E ext \in Groups : GoLoadTotal(ext)
    \/ \E ext \in Groups : GoStoreTotal(ext)
    \/ \E ext \in Groups : GoUnlockTotal(ext)
    \/ SaveTotalRow

SpecSave == InitSave /\ [][NextSave]_vars

\* the Go scheduler runs every runnable goroutine eventually
FairSpecSave == SpecSave /\ WF_vars(NextSave)

\* saveResultsByExtension of scanner.go:180 and of unnamed/part_001:103:
\* the counter is updated after mu.Unlock()
NextSaveOld ==
    \/ SaveBuildMap
    \/ \E ext \in Groups : SaveSpawn(ext)
    \/ SaveSpawnEnd
    \/ \E ext \in Groups, ok \in BOOLEAN : GoWriteFile(ext, ok)
    \/ \E ext \in Groups : GoLockRow(ext)
    \/ \E ext \in Groups : GoAppendRow(ext)
    \/ \E ext \in Groups : GoUnlockRow(ext)
    \/ \E ext \in Groups : OldGoLoadTotal(ext)
    \/ \E ext \in Groups : OldGoStoreTotal(ext)
    \/ SaveTotalRow

SpecSaveOld == InitSave /\ [][NextSaveOld]_vars

InitSnap == InitSnapVars /\ SaveIdle /\ FetchIdle /\ RunIdle /\ FilterIdle
    /\ LoadIdle /\ JsonIdle /\ ChanIdle /\ SessIdle

NextSnap ==
    \/ \E ok \in BOOLEAN : SnapMkdirAll(ok)
    \/ \E ok \in BOOLEAN : SnapCreate(ok)
    \/ SnapSpawn
    \/ SnapSpawnEnd
    \/ SnapSend
    \/ SnapClose
    \/ SnapWait
    \/ \E w \in Workers : WRecv(w)
    \/ \E w \in Workers : WExit(w)
    \/ \E w \in Workers : \E r \in ResponsesFor(w) : WRequest(w, r)
    \/ \E w \in Workers : WBackoff(w)
    \/ \E w \in Workers : WHeader(w)
    \/ \E w \in Workers : WLine(w)
    \/ \E w \in Workers : WLock(w)
    \/ \E w \in Workers : WAppend(w)
    \/ \E w \in Workers : WUnlock(w)
    \/ \E w \in Workers : WNoSnap(w)

SpecSnap == InitSnap /\ [][NextSnap]_vars

\* scanner.go:714: the ctx argument becomes done while the pass runs
CtxCancel ==
    /\ snappc \in {"spawn", "send", "wait"}
    /\ ~ctxDone
    /\ ctxDone' = TRUE
    /\ UNCHANGED notSnap
    /\ UNCHANGED <<snapUrls, snappc, spawned, sent, urlChan, chanClosed, wpc,
                   wtask, wlines, wi, report, summaryTable, smu, swg, reqCount,
                   outcome, taken, configWorkers, wlast, late>>

\* the snapshot pass over lists longer than the channel; every goroutine
\* that can run is eventually scheduled and every request completes
InitSnapQueue ==
    InitSnapWith(QueueInputs) /\ SaveIdle /\ FetchIdle /\ RunIdle /\ FilterIdle
    /\ LoadIdle /\ JsonIdle /\ ChanIdle /\ SessIdle

SpecSnapQueue == InitSnapQueue /\ [][NextSnap]_vars

FairSpecSnapQueue == SpecSnapQueue /\ WF_vars(NextSnap)

\* the snapshot pass under a context that may be cancelled at any moment
NextSnapCtx ==
    \/ NextSnap
    \/ CtxCancel

SpecSnapCtx == InitSnapQueue /\ [][NextSnapCtx]_vars

FairSpecSnapCtx == SpecSnapCtx /\ WF_vars(NextSnap)

InitFetch == InitFetchVars /\ SaveIdle /\ SnapIdle /\ RunIdle /\ FilterIdle
    /\ LoadIdle /\ JsonIdle /\ ChanIdle /\ SessIdle

NextFetch ==
    \/ \E r \in FetchResponses : FetchGet(r)
    \/ FetchScan
    \/ FetchSpawn
    \/ FetchSpawnEnd
    \/ \E i \in Chunks : ChunkFilter(i)
    \/ \E i \in Chunks : ChunkStore(i)
    \/ FetchCombine

SpecFetch == InitFetch /\ [][NextFetch]_vars

InitRun == InitRunVars /\ SaveIdle /\ SnapIdle /\ FetchIdle /\ FilterIdle
    /\ LoadIdle /\ JsonIdle /\ ChanIdle /\ SessIdle

NextRun ==
    \/ \E ok \in BOOLEAN : RunCheckInternet(ok)
    \/ \E ok \in BOOLEAN : RunCheckWayback(ok)
    \/ \E ok \in BOOLEAN : RunCheckDomain(ok)
    \/ \E ok \in BOOLEAN : RunMkdirAll(ok)
    \/ RunFetchStart
    \/ FetcherSend
    \/ FetcherFinish
    \/ FetcherFail
    \/ FetcherSendErr
    \/ FetcherClose
    \/ RunFilterRecv
    \/ RunFilterEnd
    \/ RunSelect
    \/ RunSave
    \/ NextSave
    \/ RunReturn

SpecRun == InitRun /\ [][NextRun]_vars

InitFilter == InitFilterVars /\ SaveIdle /\ SnapIdle /\ FetchIdle /\ RunIdle
    /\ LoadIdle /\ JsonIdle /\ ChanIdle /\ SessIdle

NextFilter ==
    \/ FilterApply
    \/ FilterReapply
    \/ FilterGroup

SpecFilter == InitFilter /\ [][NextFilter]_vars

InitLoad ==
    InitLoadVars /\ SaveIdle /\ SnapIdle /\ FetchIdle /\ RunIdle /\ FilterIdle
    /\ JsonIdle
    /\ ChanIdle
    /\ SessIdle

NextLoad == LoadConfig

SpecLoad == InitLoad /\ [][NextLoad]_vars

InitSess ==
    InitSessVars /\ SaveIdle /\ SnapIdle /\ FetchIdle /\ RunIdle /\ FilterIdle
    /\ LoadIdle /\ JsonIdle /\ ChanIdle

NextSess ==
    \/ \E us \in SessInputs, failing \in SUBSET {<<"p">>, <<"q">>} :
          SessFirstPass(us, failing)
    \/ SessList
    \/ \E choices \in SeqsUpTo(0..(Len(available)), MaxChoices) \ {<<>>} :
          SessSelect(choices)
    \/ SessRead
    \/ \E ok \in BOOLEAN,
          order \in OrderedSubsets(1..Len(sessUrls), MaxAnswered) :
          SessFetch(ok, order)

SpecSess == InitSess /\ [][NextSess]_vars

InitChan ==
    InitChanVars /\ SaveIdle /\ SnapIdle /\ FetchIdle /\ RunIdle /\ FilterIdle
    /\ LoadIdle /\ JsonIdle /\ SessIdle

NextChan ==
    \/ CfSpawn
    \/ CfSpawnEnd
    \/ CfGet
    \/ CfReadAll
    \/ CfSkip
    \/ CfSend
    \/ CfClose
    \/ CfWait
    \/ \E w \in ChanWorkers :
          CwRecv(w) \/ CwExit(w) \/ CwLock(w) \/ CwAppend(w) \/ CwUnlock(w)

SpecChan == InitChan /\ [][NextChan]_vars

InitJson ==
    InitJsonVars /\ SaveIdle /\ SnapIdle /\ FetchIdle /\ RunIdle /\ FilterIdle
    /\ LoadIdle /\ SessIdle /\ ChanIdle

NextJson ==
    \/ JsonSkipEmpty
    \/ \E r \in JsonResponses(IF jsIdx <= Len(jsUrls) THEN jsUrls[jsIdx]
                              ELSE <<>>) : JsonQuery(r)
    \/ JsonReturn

SpecJson == InitJson /\ [][NextJson]_vars

\* either pass of main (main.go:29-34): the aggregation called by
\* runGhostHunter, or the snapshot pass called by searchSnapshots
InitPasses == InitSave \/ InitSnap

NextPasses ==
    \/ NextSave
    \/ NextSnap

SpecPasses == InitPasses /\ [][NextPasses]_vars

----------------------------------------------------------------------------
(* Properties of saveResultsByExtension                                    *)

RECURSIVE SumSizes(_, _)
SumSizes(m, S) ==
    IF S = {} THEN 0
    ELSE LET e == CHOOSE x \in S : TRUE
         IN  Len(m[e]) + SumSizes(m, S \ {e})

LastRow == table[Len(table)]

RowsOf(ext) == {i \in 1..Len(table) : table[i].ext = ext}

\* C1: the URL count of the TOTAL row is the sum of the sizes of all groups,
\* and the TOTAL row exists only once every save goroutine has finished.
C1_TotalIsSumOfGroups ==
    /\ savepc = "done" =>
          /\ LastRow.status = "TOTAL"
          /\ LastRow.count = SumSizes(extensionMap, Groups)
    /\ (\E i \in 1..Len(table) : table[i].status = "TOTAL") =>
          \A e \in Groups : gpc[e] = "done"

\* two groups, of two URLs and of one URL, and a TOTAL row of 3
C1_Witness ==
    /\ savepc = "done"
    /\ \E e1, e2 \in Groups :
          Len(extensionMap[e1]) = 2 /\ Len(extensionMap[e2]) = 1
    /\ LastRow.count = 3

\* C2: the write of every group is attempted exactly once and every group
\* has exactly one row: its extension, <domain>.<ext>.txt, Success iff the
\* write succeeded and Failed otherwise, and the size of the group.
C2_OneAttemptOneRow ==
    /\ \A e \in Groups :
          writeAttempts[e] <= 1 /\ Cardinality(RowsOf(e)) <= 1
    /\ savepc = "done" =>
          \A e \in Groups :
            /\ writeAttempts[e] = 1
            /\ \E i \in 1..Len(table) :
                 /\ RowsOf(e) = {i}
                 /\ table[i].fileName =
                        Domain \o <<".">> \o e \o <<".", "t", "x", "t">>
                 /\ table[i].status \in {"Success", "Failed"}
                 /\ table[i].status = "Success" <=>
                        table[i].fileName \in DOMAIN files
                 /\ table[i].count = Len(extensionMap[e])

\* all rows are there; one group failed and one succeeded
C2_Witness ==
    /\ savepc = "done"
    /\ \E i, j \in 1..Len(table) :
          table[i].status = "Failed" /\ table[j].status = "Success"

\* what one group looks like after the pass, given the fate of its write
GroupSettled(e) ==
    LET fn == FileName(Domain, e)
    IN  /\ gerr[e] \in {"nil", "err"}
        /\ gerr[e] = "nil" =>
              /\ fn \in DOMAIN files
              /\ files[fn] = Join(extensionMap[e], <<NL>>)
              /\ \E i \in RowsOf(e) : table[i].status = "Success"
        /\ gerr[e] = "err" =>
              /\ \E i \in RowsOf(e) : table[i].status = "Failed"

\* C3: whichever writes fail, every other group is written and reported
\* Success, the failed ones are reported Failed, and the function returns
\* after all goroutines have finished.
C3_FailureIsolated ==
    /\ [](savepc = "done" =>
            /\ \A e \in Groups : gpc[e] = "done" /\ GroupSettled(e)
            /\ LastRow.status = "TOTAL")
    /\ <>(savepc = "done")

\* the pass returned with a failed group and a written group
C3_Witness ==
    /\ savepc = "done"
    /\ \E e1, e2 \in Groups :
          /\ gerr[e1] = "err" /\ FileName(Domain, e1) \notin DOMAIN files
          /\ gerr[e2] = "nil" /\ FileName(Domain, e2) \in DOMAIN files

\* the URLs of extension e in their input order
URLsOfExt(us, e) == SelectSeq(us, LAMBDA u : FindExt(u) = e)

\* C4: the content of every written group file and the final total depend
\* on the input list alone, not on the order in which the goroutines run.
C4_OrderIndependent ==
    /\ \A fn \in DOMAIN files :
          \E e \in {FindExt(urls[i]) : i \in 1..Len(urls)} \ {NoMatch} :
            /\ fn = FileName(Domain, e)
            /\ files[fn] = Join(URLsOfExt(urls, e), <<NL>>)
    /\ savepc = "done" =>
          /\ totalURLs =
                Len(SelectSeq(urls, LAMBDA u : FindExt(u) # NoMatch))
          /\ LastRow.count = totalURLs

\* three groups were written by three goroutines and the total is 3
C4_Witness ==
    /\ savepc = "done"
    /\ Cardinality(DOMAIN files) = 3
    /\ totalURLs = 3

\* the groups of the selected extensions, one after the other
RECURSIVE GroupsOf(_)
GroupsOf(exts) ==
    IF exts = <<>> THEN <<>>
    ELSE extensionMap[Head(exts)] \o GroupsOf(Tail(exts))

\* selections of one or two written extensions, in either order
WrittenSelections ==
    LET W == {e \in Groups : FileName(Domain, e) \in DOMAIN files}
    IN  {<<e>> : e \in W} \cup {p \in W \X W : p[1] # p[2]}

\* C31: splitting a written group file on "\n" gives back the group's URL
\* list, in order and without an empty entry, so that searchSnapshots
\* queues exactly the saved URLs of the extensions selected.
C31_SaveReadBackRoundTrip ==
    \A sel \in WrittenSelections :
        LET got == ReadSavedURLs(files, Domain, sel)
        IN  /\ got = GroupsOf(sel)
            /\ \A i \in 1..Len(got) : got[i] # <<>>

\* two group files are written, one of them with two URLs, and reading
\* both back gives the three URLs
C31_Witness ==
    /\ savepc = "done"
    /\ \E sel \in WrittenSelections :
          /\ Len(sel) = 2
          /\ Len(extensionMap[sel[1]]) = 2
          /\ Len(ReadSavedURLs(files, Domain, sel)) = 3

\* C32: listAvailableExtensions returns exactly the extensions a first
\* pass wrote a group file for; the report of the snapshot pass is never
\* offered as an extension.
C32_ListsOnlySavedExtensions ==
    sesspc = "select" =>
        {available[i] : i \in 1..Len(available)} = savedExts

\* the number of elements of the sequence q equal to x
CountIn(q, x) == Cardinality({i \in 1..Len(q) : q[i] = x})

\* C33: whenever the channel-based fetchURLsConcurrently has returned, with
\* an error or not, urlChan is closed and every worker it started has
\* terminated; on success the list returned holds every non-empty line of
\* the response exactly once.
C33_ReturnLeavesNoWorker ==
    cfpc = "returned" =>
        /\ cfClosed
        /\ \A w \in 1..cfSpawned : cwpc[w] = "exit"
        /\ cfErr = "nil" =>
              LET sentLines == NonEmpty(Split(cfResp.body, NL))
              IN  /\ Len(cfRet) = Len(sentLines)
                  /\ \A i \in 1..Len(sentLines) :
                        CountIn(cfRet, sentLines[i])
                            = CountIn(sentLines, sentLines[i])

\* the URLs whose answer decoded to a result without data rows
JsonNoData == {i \in 1..Len(jsUrls) :
                  jsGot[i].kind = "ok" /\ Len(jsGot[i].result) <= 1}

\* C34: a response without data rows, the empty array included, is no data
\* for its URL and never a crash.
C34_EmptyResultIsNoData ==
    /\ jspc # "panicked"
    /\ \A i \in JsonNoData : jsUrls[i] \notin DOMAIN jsSnapshots

\* the URLs whose answer decoded to a result with links
JsonResolved == {i \in 1..Len(jsUrls) :
                    /\ jsGot[i].kind = "ok"
                    /\ Len(jsGot[i].result) > 1
                    /\ LinksOfRows(Tail(jsGot[i].result)) # <<>>}

\* C35: a failed request or decode touches its own URL only: when the
\* function has returned, every non-empty URL was queried and the links of
\* every URL that resolved are in the map returned.
C35_FailureAffectsOneURL ==
    jspc = "returned" =>
        /\ \A i \in 1..Len(jsUrls) :
              jsUrls[i] # <<>> => jsGot[i] # NoJsonResp
        /\ \A i \in JsonResolved :
              /\ jsUrls[i] \in DOMAIN jsRet
              /\ jsRet[jsUrls[i]] = LinksOfRows(Tail(jsGot[i].result))

\* index in urls of the first URL of group e
FirstOf(e) == Min({i \in 1..Len(urls) : FindExt(urls[i]) = e})

\* C19: the rows of the groups stand in the order in which the groups
\* first occur in urls
C19_RowsInDiscoveryOrder ==
    \A i, j \in 1..Len(table) :
        (/\ i < j
         /\ table[i].status \in {"Success", "Failed"}
         /\ table[j].status \in {"Success", "Failed"}) =>
            FirstOf(table[i].ext) < FirstOf(table[j].ext)

\* C28: in the variants that update the counter outside mu, the TOTAL row
\* still counts every URL of every group
C28_OldTotalExact ==
    \A i \in 1..Len(table) :
        table[i].status = "TOTAL" =>
            table[i].count = SumSizes(extensionMap, Groups)

----------------------------------------------------------------------------
(* Properties of fetchSnapshots                                            *)

RateLimited(i) == outcome[i].code = 429

ChunksOf(i) == {k \in 1..Len(report) : report[k].task = i}

RecordsOf(i) == {k \in ChunksOf(i) : report[k].kind = "record"}

SummaryRowsOf(i) == {k \in 1..Len(summaryTable) : summaryTable[k].task = i}

\* the pass ran to its end (it did not return early at MkdirAll or Create)
SnapPassOver == snappc = "done" /\ chanClosed

\* C5: a URL answered with 429 gets no record, no report block and no
\* summary entry, is requested once only, and does not stop its worker: a
\* worker ends only when the queue is closed and drained, and at the end of
\* the pass every non-empty URL has been requested.
C5_RateLimitedDropped ==
    /\ \A i \in Tasks :
          RateLimited(i) =>
            /\ ChunksOf(i) = {}
            /\ SummaryRowsOf(i) = {}
            /\ reqCount[i] = 1
    /\ \A w \in Workers : wpc[w] = "done" => chanClosed /\ urlChan = <<>>
    /\ SnapPassOver =>
          \A i \in Tasks : snapUrls[i] # <<>> => reqCount[i] = 1

\* the first URL was rate limited and the second one, queued behind it,
\* still got its record
C5_Witness ==
    /\ SnapPassOver
    /\ \E i, j \in Tasks :
          /\ i < j
          /\ RateLimited(i)
          /\ outcome[j].code = 200
          /\ RecordsOf(j) # {}

\* C6: the writes made for one URL are contiguous in the report file
C6_BlocksContiguous ==
    \A i, k \in 1..Len(report) :
        (i < k /\ report[i].task = report[k].task) =>
            \A j \in i..k : report[j].task = report[i].task

\* C10: the count of a summary row is the number of records written to the
\* report for its URL
C10_SummaryCountsRecords ==
    \A k \in 1..Len(summaryTable) :
        summaryTable[k].count = Cardinality(RecordsOf(summaryTable[k].task))

\* the response of URL i passed every check of the worker and was split
\* into lines
Parsed(i) ==
    /\ outcome[i] # NoResp
    /\ ~outcome[i].err
    /\ outcome[i].code = 200
    /\ ~outcome[i].readerr
    /\ Len(outcome[i].body) > 0
    /\ ~Contains(outcome[i].body, HtmlTag)

\* no worker is at work on URL i any more
Settled(i) == outcome[i] # NoResp /\ \A w \in Workers : wtask[w] # i

\* the lines of a body that decode to a snapshot record, in order
ValidLines(body) == SelectSeq(Split(body, NL), LineIsRecord)

\* the lines of a body with two fields whose timestamp does not parse
MalformedLines(body) ==
    SelectSeq(Split(body, NL),
              LAMBDA l : /\ l # <<>>
                         /\ Len(Fields(l)) >= 2
                         /\ ~ValidTimestamp(Fields(l)[1]))

NoSnapOf(i) == {k \in ChunksOf(i) : report[k].kind = "nosnap"}

\* the timestamps of the records written for URL i, in report order
RECURSIVE RecordStamps(_, _)
RecordStamps(i, k) ==
    IF k = 0 THEN <<>>
    ELSE IF report[k].task = i /\ report[k].kind = "record"
         THEN Append(RecordStamps(i, k - 1), report[k].timestamp)
         ELSE RecordStamps(i, k - 1)

RECURSIVE StampsOf(_)
StampsOf(lines) ==
    IF lines = <<>> THEN <<>>
    ELSE <<Fields(Head(lines))[1]>> \o StampsOf(Tail(lines))

\* C11: once a parsed URL is dealt with, the report holds its snapshot
\* list exactly when one line or more of its body decoded to a record, and
\* its "No snapshots found" line exactly when none did.
C11_ListXorNoSnapshots ==
    \A i \in Tasks :
        (Parsed(i) /\ Settled(i)) =>
            /\ (ValidLines(outcome[i].body) # <<>>) <=> (RecordsOf(i) # {})
            /\ (ValidLines(outcome[i].body) = <<>>) <=> (NoSnapOf(i) # {})

\* C12: a line with a malformed timestamp is skipped alone: once the URL
\* is dealt with, the records of its response are those of its valid
\* lines, in order; and every record in the report carries a timestamp
\* that parses.
C12_MalformedLineSkippedAlone ==
    /\ \A i \in Tasks :
          (Parsed(i) /\ Settled(i)
             /\ MalformedLines(outcome[i].body) # <<>>) =>
            RecordStamps(i, Len(report))
              = StampsOf(ValidLines(outcome[i].body))
    /\ \A k \in 1..Len(report) :
          report[k].kind = "record" => ValidTimestamp(report[k].timestamp)

\* a response with a malformed line ahead of a valid one got the record of
\* the valid line
C12_Witness ==
    \E i \in Tasks :
        /\ Parsed(i) /\ Settled(i)
        /\ MalformedLines(outcome[i].body) # <<>>
        /\ ValidLines(outcome[i].body) # <<>>
        /\ RecordsOf(i) # {}

\* the request of URL i failed in transport, was answered with a status
\* other than 200, could not be read, or brought an empty or an HTML body
Failed(i) == outcome[i] # NoResp /\ ~Parsed(i)

C17_PoolSizeIsConfigured ==
    snappc \in {"send", "wait"} => spawned = configWorkers

\* C20: after the pass every queried non-empty URL has a row in the
\* summary, and the row of a URL that failed or had no snapshot counts
\* none
C20_EveryURLInSummary ==
    SnapPassOver =>
        \A i \in Tasks :
            snapUrls[i] # <<>> =>
                /\ SummaryRowsOf(i) # {}
                /\ (Failed(i) \/ ValidLines(outcome[i].body) = <<>>) =>
                      \A k \in SummaryRowsOf(i) : summaryTable[k].count = 0

\* the tasks now buffered in urlChan or held by a worker
InFlight == {w \in Workers : wpc[w] \in {"request", "backoff"}}

TakenOnce ==
    /\ \A i \in Tasks :
          /\ taken[i] <= 1
          /\ Cardinality({w \in Workers : wtask[w] = i}) <= 1
          /\ Cardinality({k \in 1..Len(urlChan) : urlChan[k] = i})
                + taken[i] = (IF i <= sent THEN 1 ELSE 0)
    /\ SnapPassOver =>
          /\ \A i \in Tasks : taken[i] = 1
          /\ \A w \in Workers : wpc[w] = "done"
          /\ swg = 0

C21_DelayBetweenRequests ==
    \A w \in Workers : wpc[w] = "request" => wlast[w] # "request"

\* C23 (safety part): a URL received after the context was done gets no
\* answer from the index (its request ends with the error of the context,
\* at once) and nothing in the report
LateGetsNothing ==
    \A i \in late :
        /\ outcome[i] = NoResp \/ outcome[i].err
        /\ ChunksOf(i) = {}

IndexOf(s, sub) ==
    LET hits == {i \in 1..(Len(s) - Len(sub) + 1) :
                    SubSeq(s, i, i + Len(sub) - 1) = sub}
    IN  IF hits = {} THEN 0 ELSE Min(hits)

\* the path segment after /web/ of a canonical URL
TimestampSegment(u) ==
    LET web == <<"/", "w", "e", "b", "/">>
        from == IndexOf(u, web) + Len(web)
        rest == SubSeq(u, from, Len(u))
        cut == IndexOf(rest, <<"/">>)
    IN  IF IndexOf(u, web) = 0 THEN <<>>
        ELSE IF cut = 0 THEN rest
        ELSE SubSeq(rest, 1, cut - 1)

\* C26: the canonical URL of every record in the report is
\* https://web.archive.org/web/<timestamp>/<originalURL>, and the path
\* segment after /web/ read back from it is the 14-digit timestamp of the
\* record
C26_CanonicalURLRoundTrip ==
    \A k \in 1..Len(report) :
        report[k].kind = "record" =>
            /\ report[k].snapshotURL =
                  ArchivePrefix \o report[k].timestamp \o <<"/">>
                    \o report[k].url
            /\ TimestampSegment(report[k].snapshotURL) = report[k].timestamp
            /\ Len(report[k].timestamp) = 14

\* a record was written for a.p
C26_Witness ==
    \E k \in 1..Len(report) :
        /\ report[k].kind = "record"
        /\ report[k].url = <<"a", ".", "p">>
        /\ report[k].timestamp = TsValid

----------------------------------------------------------------------------
(* Properties of both passes                                               *)

\* positions of a save goroutine between mu.Lock() and mu.Unlock()
SaveLocked ==
    {"appendRow", "unlockRow", "loadTotal", "storeTotal", "unlockTotal"}

\* C22: a goroutine that holds mu is between a Lock and the Unlock that
\* follows it, at the append to the table or at the update of the
\* counter: not at a request, a file write or a sleep; and no goroutine
\* that has ended, and neither pass when it is over, leaves mu locked.
C22_LockOnlyAroundUpdate ==
    /\ mu # NoHolder => gpc[mu] \in SaveLocked
    /\ \A e \in Groups : gpc[e] \in SaveLocked => mu = e
    /\ smu # NoHolder => wpc[smu[1]] \in {"append", "unlock"}
    /\ \A w \in Workers : wpc[w] \in {"append", "unlock"} => smu = <<w>>
    /\ savepc = "done" => mu = NoHolder
    /\ snappc = "done" => smu = NoHolder

\* a worker holds mu for its append while another one waits for the
\* answer to its request
C22_Witness ==
    \E w, v \in Workers :
        /\ smu = <<w>>
        /\ wpc[w] = "append"
        /\ wpc[v] = "request"

----------------------------------------------------------------------------
(* Properties of runGhostHunter and of fetchURLsConcurrently               *)

\* the probes in the order of main.go:42-55
ProbeOrder == <<"internet", "wayback", "domain">>

\* C24: the probes are made in the order internet, archive service,
\* domain; a failed probe is the last one made and ends the run with an
\* error, with no output directory created and no index fetch started; the
\* directory is created and the fetch started only after three probes that
\* succeeded
C24_ProbesBeforeWork ==
    /\ Len(probes) <= Len(ProbeOrder)
    /\ \A k \in 1..Len(probes) : probes[k].name = ProbeOrder[k]
    /\ \A k \in 1..Len(probes) :
          ~probes[k].ok =>
            /\ k = Len(probes)
            /\ runpc = "returned"
            /\ runErr # "none"
            /\ ~dirCreated
            /\ fetcherpc = "off"
            /\ savepc = "off"
    /\ (dirCreated \/ fetcherpc # "off") =>
          /\ Len(probes) = Len(ProbeOrder)
          /\ \A k \in 1..Len(probes) : probes[k].ok

\* the archive service was down: the run returned after two probes
C24_Witness ==
    /\ runpc = "returned"
    /\ Len(probes) = 2
    /\ probes[1].ok
    /\ ~probes[2].ok
    /\ runErr = "Wayback Machine is currently DOWN"

\* C7: on a run whose index fetch fails no output directory has been
\* created and no group file has been written
C7_NoOutputOnFetchFailure ==
    fetchFailed => (~dirCreated /\ DOMAIN files = {})

C8_Non2xxIsAnError ==
    (fpc = "returned" /\ (fresp.err \/ fresp.code \notin 200..299)) =>
        (ferr \notin {"none", "nil"} /\ fret = <<>>)

\* the fetcher has sent its error: it is in errChan or was received from it
ErrorReported == errChan # <<>> \/ runErr = "error fetching URLs"

\* C9: when the fetcher has put an error on errChan, runGhostHunter does
\* not call saveResultsByExtension and returns an error
C9_FetchErrorAbortsRun ==
    ErrorReported =>
        /\ savepc = "off"
        /\ runpc = "returned" => runErr \notin {"none", "nil"}

----------------------------------------------------------------------------
(* Properties of filterURLs                                                *)

FilterApplied == filterpc \in {"applied", "reapplied", "grouped"}

\* C15: filterURLs applied to the joined result of filterURLs returns that
\* result unchanged
C15_FilterIdempotent ==
    filterpc = "reapplied" => filterAgain = filterOut

\* the first call kept two lines or more and dropped one, and the second
\* call has run
C15_Witness ==
    /\ filterpc = "reapplied"
    /\ Len(filterOut) >= 2
    /\ Len(filterOut) < Len(Split(data, NL))

\* the text a token stands for: the token without its escapes
Unescape(tok) == SelectSeq(tok, LAMBDA c : c # BSL)

\* the line ends with a dot, the text of the token and, optionally, a '?'
\* and anything after it
EndsWithToken(line, tok) ==
    LET t == <<".">> \o Unescape(tok)
    IN  \E k \in 1..Len(line) :
            /\ k + Len(t) - 1 <= Len(line)
            /\ SubSeq(line, k, k + Len(t) - 1) = t
            /\ \/ k + Len(t) - 1 = Len(line)
               \/ line[k + Len(t)] = "?"

\* the lines of d that are not empty and end with one of the tokens
LiteralFilter(d, exts) ==
    SelectSeq(Split(d, NL),
              LAMBDA line :
                  /\ line # <<>>
                  /\ \E n \in 1..Len(exts) : EndsWithToken(line, exts[n]))

\* no token has a dot that is not escaped
PlainTokens(exts) ==
    \A n \in 1..Len(exts) :
        \A k \in 1..Len(exts[n]) :
            exts[n][k] = "." => (k > 1 /\ exts[n][k - 1] = BSL)

\* C16 as stated: the result of filterURLs is, in order and unmodified,
\* the non-empty lines that end with a literal dot, one of the configured
\* tokens and an optional query suffix
C16_KeepsIffLiteralToken ==
    FilterApplied => filterOut = LiteralFilter(data, extensions)

C16_PlainKept ==
    (FilterApplied /\ PlainTokens(extensions)) =>
        filterOut = LiteralFilter(data, extensions)

\* C16, amended: for an extension list whose tokens are letters, digits
\* and escaped dots, the result of filterURLs is, in order and unmodified,
\* the non-empty lines that end with a literal dot, one of the tokens and
\* an optional query suffix; no call changes data or extensions.
C16_KeepsIffPlainToken ==
    /\ []C16_PlainKept
    /\ [][data' = data /\ extensions' = extensions]_vars

\* under a token with an escaped dot the line that ends with the token was
\* kept and the one with another character for the dot was dropped
C16_Witness ==
    /\ FilterApplied
    /\ PlainTokens(extensions)
    /\ \E n \in 1..Len(extensions) : \E k \in 1..Len(extensions[n]) :
          extensions[n][k] = BSL
    /\ filterOut = << <<"a", ".", "t", ".", "z">> >>
    /\ Len(Split(data, NL)) = 2
    /\ <<"a", ".", "t", "x", "z">> \in {Split(data, NL)[k] : k \in 1..2}

\* every token is made of letters and digits only
AlnumTokens(exts) ==
    \A n \in 1..Len(exts) :
        \A k \in 1..Len(exts[n]) : IsAlnum(exts[n][k])

\* C29: with tokens of letters and digits, every group built from the
\* filtered URLs is named by one of the tokens
C29_GroupsAreConfigured ==
    (filterpc = "grouped" /\ AlnumTokens(extensions)) =>
        DOMAIN filterGroups \subseteq {extensions[n] : n \in 1..Len(extensions)}

\* C30: with tokens of letters, digits and escaped dots, each of which
\* ends with a letter or a digit, no filtered URL is left out of the
\* groups: each one is in one group and no other, and the sizes of the
\* groups add up to the number of filtered URLs
C30_NoFilteredURLDropped ==
    (/\ filterpc = "grouped"
     /\ PlainTokens(extensions)
     /\ \A n \in 1..Len(extensions) :
           extensions[n] # <<>>
             /\ IsAlnum(extensions[n][Len(extensions[n])])) =>
        /\ SumSizes(filterGroups, DOMAIN filterGroups) = Len(filterOut)
        /\ \A k \in 1..Len(filterOut) :
              Cardinality({e \in DOMAIN filterGroups :
                             \E j \in 1..Len(filterGroups[e]) :
                                 filterGroups[e][j] = filterOut[k]}) = 1

\* three URLs were kept, one of them with a query, and grouped under two
\* extensions
C30_Witness ==
    /\ filterpc = "grouped"
    /\ PlainTokens(extensions)
    /\ Len(filterOut) = 3
    /\ <<"a", ".", "p", "?", "x">> \in {filterOut[k] : k \in 1..3}
    /\ Cardinality(DOMAIN filterGroups) = 2

----------------------------------------------------------------------------
(* Properties of loadConfig                                                *)

\* C27 as stated: NumWorkers is 5 when numWorkers is absent, zero or
\* negative, otherwise the configured value clamped to twice the CPUs, and
\* always from 1 to twice the CPUs
C27_DefaultIsFive ==
    loadpc = "returned" =>
        /\ fileNumWorkers <= 0 => loadedWorkers = DefaultNumWorkers
        /\ fileNumWorkers > 0 =>
              loadedWorkers = Min({fileNumWorkers, numCPU * 2})
        /\ 1 <= loadedWorkers /\ loadedWorkers <= numCPU * 2

\* C27, amended: NumWorkers is the configured value, or 5 when numWorkers
\* is absent, zero or negative, clamped in both cases to twice the CPUs;
\* it is always from 1 to twice the CPUs
C27_DefaultThenClamp ==
    loadpc = "returned" =>
        /\ fileNumWorkers <= 0 =>
              loadedWorkers = Min({DefaultNumWorkers, numCPU * 2})
        /\ fileNumWorkers > 0 =>
              loadedWorkers = Min({fileNumWorkers, numCPU * 2})
        /\ 1 <= loadedWorkers /\ loadedWorkers <= numCPU * 2

\* numWorkers absent on a machine of two CPUs: the default was clamped to 4
C27_Witness ==
    /\ loadpc = "returned"
    /\ fileNumWorkers = 0
    /\ numCPU = 2
    /\ loadedWorkers = 4

====
